---------------------------- MODULE Spec2Model ----------------------------
(***************************************************************************)
(* A model of the constrained-body integration and solver front-end layer  *)
(* of Chrono: ChBody (state bookkeeping, sleeping, solver variables), the  *)
(* ChLinkMateGeneric constraint states, and ChLcpSolverParallelDVI's       *)
(* RunTimeStep assembly pipeline.                                          *)
(*                                                                         *)
(* Numbers are integers.  Vectors are 3-tuples and quaternions 4-tuples of *)
(* integers; rotations are taken from the eight unit quaternions with one  *)
(* component +-1 (half turns about the axes), on which Qcross and          *)
(* Qconjugate are exact.  The unit of angle is pi, so an angular velocity  *)
(* of 1 held for a step of 1 is a half turn.  Thresholds (sleep_time,      *)
(* sleep_minspeed, sleep_minwvel, max_speed, max_wvel) are the configured  *)
(* values of the ChBody fields in these units; the code only compares      *)
(* against them.  coord_dt.rot is held doubled (rot_dt = 2 * dq/dt), so    *)
(* that "2.0 * GetRotDer()" of the code is rot_dt here.                    *)
(***************************************************************************)
EXTENDS Integers, Sequences, FiniteSets, TLC

VARIABLES
    body,        \* the ChBody object (its fields, with its ChVariablesBody)
    descriptor,  \* ChSystemDescriptor: the variables inserted by InjectVariables
    Rvec,        \* the global residual R at the body's offset: <<force, torque>>
    op,          \* the last call made: its name, arguments and return value
    last_force,  \* when the last force was applied to the body (time, timer then)
    dm,          \* ChParallelDataManager as read and written by RunTimeStep
    link,        \* the ChLinkMateGeneric constraint
    motor,       \* a ChShaftsMotorAngle, its two ChShaft and its solver constraint
    matter       \* a ChMatterPeridynamics container with its material

vars == <<body, descriptor, Rvec, op, last_force, dm, link, motor, matter>>

-----------------------------------------------------------------------------
(* Bounds of the model *)

MaxTime == 5
MaxAccum == 1
MaxContacts == 1
MaxIter == 1
MaxPos == 3
MaxResidual == 2
MaxVel == 3
MaxAngle == 2
MaxBias == 4
MaxSteps == 2

-----------------------------------------------------------------------------
(* Vector and quaternion algebra *)

VNULL == <<0, 0, 0>>
QNULL == <<0, 0, 0, 0>>
QUNIT == <<1, 0, 0, 0>>

Abs(x) == IF x < 0 THEN -x ELSE x
Max2(x, y) == IF x > y THEN x ELSE y

Vadd(a, b) == <<a[1] + b[1], a[2] + b[2], a[3] + b[3]>>
Vsub(a, b) == <<a[1] - b[1], a[2] - b[2], a[3] - b[3]>>
Vmul(a, s) == <<a[1] * s, a[2] * s, a[3] * s>>
Vcross(a, b) == <<a[2] * b[3] - a[3] * b[2],
                  a[3] * b[1] - a[1] * b[3],
                  a[1] * b[2] - a[2] * b[1]>>
VLengthInf(a) == Max2(Abs(a[1]), Max2(Abs(a[2]), Abs(a[3])))
QLengthInf(q) == Max2(Max2(Abs(q[1]), Abs(q[2])), Max2(Abs(q[3]), Abs(q[4])))

Isqrt(n) == CHOOSE k \in 0..n : k * k <= n /\ (k + 1) * (k + 1) > n
VLength(a) == Isqrt(a[1] * a[1] + a[2] * a[2] + a[3] * a[3])
QLength(q) == Isqrt(q[1] * q[1] + q[2] * q[2] + q[3] * q[3] + q[4] * q[4])

Qadd(qa, qb) == <<qa[1] + qb[1], qa[2] + qb[2], qa[3] + qb[3], qa[4] + qb[4]>>
Qsub(qa, qb) == <<qa[1] - qb[1], qa[2] - qb[2], qa[3] - qb[3], qa[4] - qb[4]>>
Qconjugate(q) == <<q[1], -q[2], -q[3], -q[4]>>
Qcross(qa, qb) ==
    <<qa[1] * qb[1] - qa[2] * qb[2] - qa[3] * qb[3] - qa[4] * qb[4],
      qa[1] * qb[2] + qa[2] * qb[1] - qa[4] * qb[3] + qa[3] * qb[4],
      qa[1] * qb[3] + qa[3] * qb[1] + qa[4] * qb[2] - qa[2] * qb[4],
      qa[1] * qb[4] + qa[4] * qb[1] - qa[3] * qb[2] + qa[2] * qb[3]>>

Qvec(q) == <<q[2], q[3], q[4]>>
Qpure(v) == <<0, v[1], v[2], v[3]>>

\* v rotated by the unit quaternion q (q v q*), and by its inverse
QRotate(q, v) == Qvec(Qcross(Qcross(q, Qpure(v)), Qconjugate(q)))
QRotateBack(q, v) == Qvec(Qcross(Qcross(Qconjugate(q), Qpure(v)), q))

\* 3x3 matrix (a tuple of rows) times a vector
Mmul(m, v) == <<m[1][1] * v[1] + m[1][2] * v[2] + m[1][3] * v[3],
                m[2][1] * v[1] + m[2][2] * v[2] + m[2][3] * v[3],
                m[3][1] * v[1] + m[3][2] * v[2] + m[3][3] * v[3]>>

\* v / |v| for a vector along an axis; a null vector becomes the X axis
Vnormalize(v) ==
    LET l == VLength(v)
    IN  IF l = 0 THEN <<1, 0, 0>> ELSE <<v[1] \div l, v[2] \div l, v[3] \div l>>

\* cos and sin of k quarter turns
CosQuarter(k) == CASE k % 4 = 0 -> 1 [] k % 4 = 1 -> 0 [] k % 4 = 2 -> -1 [] OTHER -> 0
SinQuarter(k) == CASE k % 4 = 0 -> 0 [] k % 4 = 1 -> 1 [] k % 4 = 2 -> 0 [] OTHER -> -1

\* the quaternion of a rotation of `angle` (in units of pi) about `axis`
Q_from_AngAxis(angle, axis) ==
    <<CosQuarter(angle), axis[1] * SinQuarter(angle),
      axis[2] * SinQuarter(angle), axis[3] * SinQuarter(angle)>>

-----------------------------------------------------------------------------
(* ChBody *)

sleep_time == 3
sleep_minspeed == 1
sleep_minwvel == 1
max_speed == 2
max_wvel == 2

G_acc == <<0, 0, -1>>

\* The body after construction.
NewBody ==
    [ fixed |-> FALSE, collide |-> FALSE,
      bflags |-> {"USESLEEPING"},
      ChTime |-> 0, sleep_starttime |-> 0,
      pos |-> VNULL, rot |-> QUNIT,
      pos_dt |-> VNULL, rot_dt |-> QNULL,
      pos_dtdt |-> VNULL, rot_dtdt |-> QNULL,
      Xforce |-> VNULL, Xtorque |-> VNULL,
      Force_acc |-> VNULL, Torque_acc |-> VNULL,
      gyro |-> VNULL,
      forcelist |-> <<>>, marklist |-> <<>>,
      assets_time |-> 0,
      mass |-> 1,
      inertia |-> <<<<2, 1, 0>>, <<1, 2, 0>>, <<0, 0, 3>>>>,
      system |-> TRUE,
      var_disabled |-> FALSE, qb |-> <<VNULL, VNULL>>, fb |-> <<VNULL, VNULL>>,
      collision_model |-> FALSE, has_implementation |-> FALSE,
      coll_sys_initialized |-> FALSE, double_add |-> FALSE, stray_remove |-> FALSE ]

BFlagGet(b, mask) == mask \in b.bflags
BFlagSet(b, mask, state) ==
    [b EXCEPT !.bflags = IF state THEN @ \cup {mask} ELSE @ \ {mask}]

\* SetBodyFixed as it would be if it left the solver variables alone
SetBodyFixed_FlagOnly(b, state) == [b EXCEPT !.fixed = state]

SetBodyFixed(b, state) == [b EXCEPT !.var_disabled = state, !.fixed = state]
SetLimitSpeed(b, state) == BFlagSet(b, "LIMITSPEED", state)
GetLimitSpeed(b) == BFlagGet(b, "LIMITSPEED")
SetNoGyroTorque(b, state) == BFlagSet(b, "NOGYROTORQUE", state)
GetNoGyroTorque(b) == BFlagGet(b, "NOGYROTORQUE")
SetUseSleeping(b, state) == BFlagSet(b, "USESLEEPING", state)
GetUseSleeping(b) == BFlagGet(b, "USESLEEPING")
SetSleeping(b, state) == BFlagSet(b, "SLEEPING", state)
GetSleeping(b) == BFlagGet(b, "SLEEPING")

IsActive(b) == ~BFlagGet(b, "SLEEPING") /\ ~b.fixed

\* ChFrameMoving accessors used by ChBody
GetAngVelLocal(b) == Qvec(Qcross(Qconjugate(b.rot), b.rot_dt))
SetAngVelLocal(b, w) == [b EXCEPT !.rot_dt = Qcross(b.rot, Qpure(w))]
SetPosDer(b, v) == [b EXCEPT !.pos_dt = v]

Below(b) ==
    VLengthInf(b.pos_dt) < sleep_minspeed /\ QLengthInf(b.rot_dt) < sleep_minwvel

\* TrySleeping as it would be if it put the body to sleep itself
TrySleeping_PutsToSleep(b) ==
    LET b1 == BFlagSet(b, "COULDSLEEP", FALSE)
    IN  IF GetUseSleeping(b1) /\ IsActive(b1)
        THEN IF Below(b1)
             THEN IF (b1.ChTime - b1.sleep_starttime) > sleep_time
                  THEN BFlagSet(BFlagSet(b1, "COULDSLEEP", TRUE), "SLEEPING", TRUE)
                  ELSE b1
             ELSE [b1 EXCEPT !.sleep_starttime = b1.ChTime]
        ELSE b1

TrySleeping(b) ==
    LET b1 == BFlagSet(b, "COULDSLEEP", FALSE)
    IN  IF GetUseSleeping(b1)
        THEN IF ~IsActive(b1)
             THEN b1
             ELSE IF Below(b1)
                  THEN IF (b1.ChTime - b1.sleep_starttime) > sleep_time
                       THEN BFlagSet(b1, "COULDSLEEP", TRUE)
                       ELSE b1
                  ELSE [b1 EXCEPT !.sleep_starttime = b1.ChTime]
        ELSE b1

\* the value TrySleeping returns
TrySleepingResult(b) ==
    /\ GetUseSleeping(b)
    /\ IsActive(b)
    /\ Below(b)
    /\ (b.ChTime - b.sleep_starttime) > sleep_time


\* ChBodyFrame::To_abs_forcetorque: a force and its point of application as
\* an absolute force and an absolute torque about the body's origin.
To_abs_force(b, force, appl_point, local) ==
    IF local THEN QRotate(b.rot, force) ELSE force
To_abs_torque(b, force, appl_point, local) ==
    IF local
    THEN Vcross(QRotate(b.rot, appl_point), QRotate(b.rot, force))
    ELSE Vcross(Vsub(appl_point, b.pos), force)

Dir_World2Body(b, dir) == QRotateBack(b.rot, dir)

Empty_forces_accumulators(b) == [b EXCEPT !.Force_acc = VNULL, !.Torque_acc = VNULL]

Accumulate_force(b, force, appl_point, local) ==
    [b EXCEPT !.Force_acc = Vadd(@, To_abs_force(b, force, appl_point, local)),
              !.Torque_acc = Vadd(@, Dir_World2Body(b, To_abs_torque(b, force, appl_point, local)))]

Accumulate_torque(b, torque, local) ==
    IF local
    THEN [b EXCEPT !.Torque_acc = Vadd(@, torque)]
    ELSE [b EXCEPT !.Torque_acc = Vadd(@, Dir_World2Body(b, torque))]

ComputeGyro(b) ==
    LET Wvel == GetAngVelLocal(b)
    IN  [b EXCEPT !.gyro = Vcross(Wvel, Mmul(b.inertia, Wvel))]

ClampSpeed(b) ==
    IF GetLimitSpeed(b)
    THEN LET w == QLength(b.rot_dt)
             b1 == IF w > max_wvel
                   THEN [b EXCEPT !.rot_dt = <<(@[1] * max_wvel) \div w, (@[2] * max_wvel) \div w,
                                               (@[3] * max_wvel) \div w, (@[4] * max_wvel) \div w>>]
                   ELSE b
             v == VLength(b1.pos_dt)
         IN  IF v > max_speed
             THEN [b1 EXCEPT !.pos_dt = <<(@[1] * max_speed) \div v, (@[2] * max_speed) \div v,
                                          (@[3] * max_speed) \div v>>]
             ELSE b1
    ELSE b

\* a ChForce of forcelist is the body force and torque it evaluates to
AddForce(b, aforce) == [b EXCEPT !.forcelist = Append(@, aforce)]

\* a ChMarker of marklist is the time and body position of its last Update
AddMarker(b) == [b EXCEPT !.marklist = Append(@, [time |-> 0, abs_pos |-> VNULL])]

UpdateMarkers(b, mytime) ==
    [b EXCEPT !.marklist = [i \in 1..Len(b.marklist) |-> [time |-> mytime, abs_pos |-> b.pos]]]

RECURSIVE SumForces(_, _)
SumForces(fl, i) ==
    IF i > Len(fl) THEN <<VNULL, VNULL>>
    ELSE LET rest == SumForces(fl, i + 1)
         IN  <<Vadd(fl[i].force, rest[1]), Vadd(fl[i].torque, rest[2])>>

UpdateForces(b, mytime) ==
    LET listed == SumForces(b.forcelist, 1)
        weight == IF b.system THEN Vmul(G_acc, b.mass) ELSE VNULL
    IN  [b EXCEPT !.Xforce = Vadd(Vadd(b.Force_acc, listed[1]), weight),
                  !.Xtorque = Vadd(b.Torque_acc, listed[2])]

UpdateTime(b, mytime) == [b EXCEPT !.ChTime = mytime]

\* ChBody::Update(bool update_assets)
Update(b, update_assets) ==
    LET b1 == ClampSpeed(b)
        b2 == ComputeGyro(b1)
        b3 == UpdateMarkers(b2, b2.ChTime)
        b4 == UpdateForces(b3, b3.ChTime)
    IN  IF update_assets THEN [b4 EXCEPT !.assets_time = b4.ChTime] ELSE b4

\* ChBody::Update(double mytime, bool update_assets)
UpdateAt(b, mytime, update_assets) == Update(UpdateTime(b, mytime), update_assets)

\* x is <<position, rotation>>, v is <<linear velocity, local angular velocity>>
IntStateScatter(b, x, v, T, full_update) ==
    LET b1 == [b EXCEPT !.pos = x[1], !.rot = x[2]]
        b2 == SetPosDer(b1, v[1])
        b3 == SetAngVelLocal(b2, v[2])
        b4 == [b3 EXCEPT !.ChTime = T]
    IN  UpdateAt(b4, T, full_update)

IntStateGather(b) ==
    [x |-> <<b.pos, b.rot>>, v |-> <<b.pos_dt, GetAngVelLocal(b)>>, T |-> b.ChTime]

\* the torque the body adds to a force vector
AppliedTorque(b) == IF GetNoGyroTorque(b) THEN b.Xtorque ELSE Vsub(b.Xtorque, b.gyro)

\* R is the residual at the body's offset, <<force part, torque part>>
IntLoadResidual_F(b, R, c) ==
    <<Vadd(R[1], Vmul(b.Xforce, c)), Vadd(R[2], Vmul(AppliedTorque(b), c))>>

IntToDescriptor(b, v, R) == [b EXCEPT !.qb = v, !.fb = R]
IntFromDescriptor(b) == b.qb

\* InjectVariables as it would be if it looked at the fixed flag alone
\* ChBody::ChBody(const ChBody&): the frame, the flags, the variables, the
\* gyroscopic torque, the time and the sleep data are the other body's; the
\* forces and markers are not copied and the copy is in no system.
CopyBody(other) ==
    [NewBody EXCEPT !.pos = other.pos, !.rot = other.rot,
                    !.pos_dt = other.pos_dt, !.rot_dt = other.rot_dt,
                    !.pos_dtdt = other.pos_dtdt, !.rot_dtdt = other.rot_dtdt,
                    !.fixed = other.fixed, !.collide = other.collide,
                    !.bflags = other.bflags,
                    !.var_disabled = other.var_disabled,
                    !.qb = other.qb, !.fb = other.fb,
                    !.mass = other.mass, !.inertia = other.inertia,
                    !.gyro = other.gyro,
                    !.forcelist = <<>>, !.marklist = <<>>,
                    !.ChTime = other.ChTime,
                    !.sleep_starttime = other.sleep_starttime,
                    !.collision_model = other.collision_model,
                    !.system = FALSE]

InjectVariables_FixedOnly(b) == [b EXCEPT !.var_disabled = b.fixed]

InjectVariables(b) == [b EXCEPT !.var_disabled = ~IsActive(b)]

VariablesFbReset(b) == [b EXCEPT !.fb = <<VNULL, VNULL>>]

VariablesFbLoadForces(b, factor) ==
    [b EXCEPT !.fb = <<Vadd(@[1], Vmul(b.Xforce, factor)),
                       Vadd(@[2], Vmul(AppliedTorque(b), factor))>>]

VariablesQbLoadSpeed(b) == [b EXCEPT !.qb = <<b.pos_dt, GetAngVelLocal(b)>>]

VariablesQbSetSpeed(b, step) ==
    LET old_pos_dt == b.pos_dt
        old_rot_dt == b.rot_dt
        b1 == SetPosDer(b, b.qb[1])
        b2 == SetAngVelLocal(b1, b.qb[2])
        b3 == ClampSpeed(b2)
        b4 == ComputeGyro(b3)
        dv == Vsub(b4.pos_dt, old_pos_dt)
        dq == Qsub(b4.rot_dt, old_rot_dt)
    IN  IF step # 0
        THEN [b4 EXCEPT !.pos_dtdt = <<dv[1] \div step, dv[2] \div step, dv[3] \div step>>,
                        !.rot_dtdt = <<dq[1] \div step, dq[2] \div step,
                                       dq[3] \div step, dq[4] \div step>>]
        ELSE b4

VariablesQbIncrementPosition(b, dt_step) ==
    IF ~IsActive(b)
    THEN b
    ELSE LET newspeed == b.qb[1]
             newwel == b.qb[2]
             moldrot == b.rot
             newwel_abs == QRotate(b.rot, newwel)
             mangle == VLength(newwel_abs) * dt_step
             mdeltarot == Q_from_AngAxis(mangle, Vnormalize(newwel_abs))
         IN  [b EXCEPT !.pos = Vadd(b.pos, Vmul(newspeed, dt_step)),
                       !.rot = Qcross(mdeltarot, moldrot)]

-----------------------------------------------------------------------------
(* The calls on the body, as steps *)

Call(name, flag, ret) == [name |-> name, flag |-> flag, arg |-> <<>>, ret |-> ret]
CallArg(name, flag, arg, ret) == [name |-> name, flag |-> flag, arg |-> arg, ret |-> ret]
NoForceYet == [t |-> -1, elapsed |-> 0]

DoSetBodyFixed(state) ==
    /\ body' = SetBodyFixed(body, state)
    /\ op' = Call("SetBodyFixed", state, FALSE)
    /\ UNCHANGED <<descriptor, Rvec, last_force, dm, link, motor, matter>>

DoSetSleeping(state) ==
    /\ body' = SetSleeping(body, state)
    /\ op' = Call("SetSleeping", state, FALSE)
    /\ UNCHANGED <<descriptor, Rvec, last_force, dm, link, motor, matter>>

DoSetUseSleeping(state) ==
    /\ body' = SetUseSleeping(body, state)
    /\ op' = Call("SetUseSleeping", state, FALSE)
    /\ UNCHANGED <<descriptor, Rvec, last_force, dm, link, motor, matter>>

DoSetLimitSpeed(state) ==
    /\ body' = SetLimitSpeed(body, state)
    /\ op' = Call("SetLimitSpeed", state, FALSE)
    /\ UNCHANGED <<descriptor, Rvec, last_force, dm, link, motor, matter>>

DoSetNoGyroTorque(state) ==
    /\ body' = SetNoGyroTorque(body, state)
    /\ op' = Call("SetNoGyroTorque", state, FALSE)
    /\ UNCHANGED <<descriptor, Rvec, last_force, dm, link, motor, matter>>

DoTrySleeping ==
    /\ body' = TrySleeping(body)
    /\ op' = Call("TrySleeping", FALSE, TrySleepingResult(body))
    /\ UNCHANGED <<descriptor, Rvec, last_force, dm, link, motor, matter>>

DoAccumulate_force(force, appl_point, local) ==
    /\ VLengthInf(Accumulate_force(body, force, appl_point, local).Force_acc) <= MaxAccum
    /\ VLengthInf(Accumulate_force(body, force, appl_point, local).Torque_acc) <= MaxAccum
    /\ body' = Accumulate_force(body, force, appl_point, local)
    /\ op' = Call("Accumulate_force", local, FALSE)
    /\ last_force' = [t |-> body.ChTime, elapsed |-> body.ChTime - body.sleep_starttime]
    /\ UNCHANGED <<descriptor, Rvec, dm, link, motor, matter>>

DoAccumulate_torque(torque, local) ==
    /\ VLengthInf(Accumulate_torque(body, torque, local).Torque_acc) <= MaxAccum
    /\ body' = Accumulate_torque(body, torque, local)
    /\ op' = Call("Accumulate_torque", local, FALSE)
    /\ UNCHANGED <<descriptor, Rvec, last_force, dm, link, motor, matter>>

DoAddForce(aforce) ==
    /\ Len(body.forcelist) < MaxAccum
    /\ body' = AddForce(body, aforce)
    /\ op' = Call("AddForce", FALSE, FALSE)
    /\ last_force' = [t |-> body.ChTime, elapsed |-> body.ChTime - body.sleep_starttime]
    /\ UNCHANGED <<descriptor, Rvec, dm, link, motor, matter>>

DoAddMarker ==
    /\ Len(body.marklist) < MaxAccum
    /\ body' = AddMarker(body)
    /\ op' = Call("AddMarker", FALSE, FALSE)
    /\ UNCHANGED <<descriptor, Rvec, last_force, dm, link, motor, matter>>

DoIntStateScatter(x, v, T, full_update) ==
    /\ T <= MaxTime
    /\ body' = IntStateScatter(body, x, v, T, full_update)
    /\ op' = CallArg("IntStateScatter", full_update, <<x, v, T>>, FALSE)
    /\ UNCHANGED <<descriptor, Rvec, last_force, dm, link, motor, matter>>

\* ChCollisionSystem::Add and Remove on the body's model: has_implementation
\* is what HasImplementation() answers; double_add and stray_remove record an
\* Add of a registered model and a Remove of one that is not.
CollSysAdd(b) ==
    [b EXCEPT !.double_add = @ \/ b.has_implementation, !.has_implementation = TRUE]
CollSysRemove(b) ==
    [b EXCEPT !.stray_remove = @ \/ ~b.has_implementation, !.has_implementation = FALSE]

\* SetCollide as it would be without the HasImplementation tests
SetCollide_NoTest(b, state) ==
    IF state = b.collide THEN b
    ELSE LET b1 == [b EXCEPT !.collide = state]
         IN  IF ~b1.collision_model \/ ~b1.system \/ ~b1.coll_sys_initialized THEN b1
             ELSE IF b1.collide THEN CollSysAdd(b1) ELSE b1

\* ChBody::SetCollide
SetCollide(b, state) ==
    IF state = b.collide THEN b
    ELSE LET b1 == [b EXCEPT !.collide = state]
         IN  IF ~b1.collision_model THEN b1
             ELSE IF ~b1.system THEN b1
             ELSE IF ~b1.coll_sys_initialized THEN b1
             ELSE IF b1.collide /\ ~b1.has_implementation THEN CollSysAdd(b1)
             ELSE IF ~b1.collide /\ b1.has_implementation THEN CollSysRemove(b1)
             ELSE b1

\* ChBody::AddCollisionModelsToSystem
AddCollisionModelsToSystem(b) ==
    IF b.collide /\ b.collision_model THEN CollSysAdd(b) ELSE b

DoSetCollide(state) ==
    /\ body' = SetCollide(body, state)
    /\ op' = Call("SetCollide", state, FALSE)
    /\ UNCHANGED <<descriptor, Rvec, last_force, dm, link, motor, matter>>

\* The collision system is initialized once and then asks the body for its
\* collision models.
DoAddCollisionModelsToSystem ==
    /\ ~body.coll_sys_initialized
    /\ body' = [AddCollisionModelsToSystem(body) EXCEPT !.coll_sys_initialized = TRUE]
    /\ op' = Call("AddCollisionModelsToSystem", FALSE, FALSE)
    /\ UNCHANGED <<descriptor, Rvec, last_force, dm, link, motor, matter>>

\* the copy takes the place of the body it was made from
DoCopyBody ==
    /\ body' = CopyBody(body)
    /\ op' = Call("CopyBody", FALSE, FALSE)
    /\ UNCHANGED <<descriptor, Rvec, last_force, dm, link, motor, matter>>

DoInjectVariables ==
    /\ body' = InjectVariables(body)
    /\ descriptor' = descriptor \cup {"body"}
    /\ op' = Call("InjectVariables", FALSE, FALSE)
    /\ UNCHANGED <<Rvec, last_force, dm, link, motor, matter>>

DoIntToDescriptor(v, R) ==
    /\ body' = IntToDescriptor(body, v, R)
    /\ op' = Call("IntToDescriptor", FALSE, FALSE)
    /\ UNCHANGED <<descriptor, Rvec, last_force, dm, link, motor, matter>>

DoVariablesQbLoadSpeed ==
    /\ body' = VariablesQbLoadSpeed(body)
    /\ op' = Call("VariablesQbLoadSpeed", FALSE, FALSE)
    /\ UNCHANGED <<descriptor, Rvec, last_force, dm, link, motor, matter>>

DoVariablesQbSetSpeed(step) ==
    /\ body' = VariablesQbSetSpeed(body, step)
    /\ op' = Call("VariablesQbSetSpeed", step # 0, FALSE)
    /\ UNCHANGED <<descriptor, Rvec, last_force, dm, link, motor, matter>>

DoVariablesQbIncrementPosition(dt_step) ==
    /\ VLengthInf(VariablesQbIncrementPosition(body, dt_step).pos) <= MaxPos
    /\ body' = VariablesQbIncrementPosition(body, dt_step)
    /\ op' = Call("VariablesQbIncrementPosition", FALSE, FALSE)
    /\ UNCHANGED <<descriptor, Rvec, last_force, dm, link, motor, matter>>

DoIntLoadResidual_F(c) ==
    /\ VLengthInf(IntLoadResidual_F(body, Rvec, c)[1]) <= MaxResidual
    /\ VLengthInf(IntLoadResidual_F(body, Rvec, c)[2]) <= MaxResidual
    /\ Rvec' = IntLoadResidual_F(body, Rvec, c)
    /\ op' = Call("IntLoadResidual_F", FALSE, FALSE)
    /\ UNCHANGED <<body, descriptor, last_force, dm, link, motor, matter>>

DoVariablesFbLoadForces(factor) ==
    /\ VLengthInf(VariablesFbLoadForces(body, factor).fb[1]) <= MaxResidual
    /\ VLengthInf(VariablesFbLoadForces(body, factor).fb[2]) <= MaxResidual
    /\ body' = VariablesFbLoadForces(body, factor)
    /\ op' = Call("VariablesFbLoadForces", FALSE, FALSE)
    /\ UNCHANGED <<descriptor, Rvec, last_force, dm, link, motor, matter>>

DoVariablesFbReset ==
    /\ body' = VariablesFbReset(body)
    /\ op' = Call("VariablesFbReset", FALSE, FALSE)
    /\ UNCHANGED <<descriptor, Rvec, last_force, dm, link, motor, matter>>

-----------------------------------------------------------------------------
(* ChLcpSolverParallelDVI: the data manager and RunTimeStep *)

SolverModes == {"BILATERAL", "NORMAL", "SLIDING", "SPINNING"}
Containers == <<"rigid_rigid", "bilateral", "node_container", "fea_container">>

\* The data manager before the first step.  Sizes are the row/element counts
\* of the matrices and vectors; their entries are written by the containers.
NewDM ==
    [ solver_mode |-> "SLIDING", local_solver_mode |-> "SLIDING",
      max_iteration_normal |-> 0, max_iteration_sliding |-> 0,
      max_iteration_spinning |-> 0, compute_N |-> FALSE,
      num_dof |-> 2,
      num_rigid_contacts |-> 0, num_bilaterals |-> 0,
      node_constraints |-> 0, fea_constraints |-> 0,
      num_unilaterals |-> 0, num_constraints |-> 0, rigid_rigid_offset |-> 0,
      gamma |-> <<>>,
      D_T_rows |-> 0, D_T_cols |-> 0, D_rows |-> 0, D_cols |-> 0,
      M_invD_rows |-> 0, M_invD_cols |-> 0,
      E_size |-> 0, b_size |-> 0, R_full_size |-> 0, R_size |-> 0, Nshur_size |-> 0,
      total_iteration |-> 0, Fc_current |-> TRUE,
      v |-> <<0, 0>>, hf |-> <<0, 0>>,
      M_inv |-> <<<<1, 0>>, <<0, 1>>>>,
      M_invD |-> <<<<>>, <<>>>>,
      timers |-> {}, calls |-> <<>> ]

Log(d, fn, who) == [d EXCEPT !.calls = Append(@, [fn |-> fn, who |-> who, gamma_in |-> <<>>])]
TimerStart(d, name) == [d EXCEPT !.timers = @ \cup {name}]
TimerStop(d, name) == [d EXCEPT !.timers = @ \ {name}]

\* one call of `fn` on each container, in the order given
RECURSIVE LogEach(_, _, _, _)
LogEach(d, fn, order, i) ==
    IF i > Len(order) THEN d ELSE LogEach(Log(d, fn, order[i]), fn, order, i + 1)

\* dense vectors and matrices (a matrix is the sequence of its rows)
RECURSIVE Dot(_, _, _)
Dot(a, b, j) == IF j > Len(a) THEN 0 ELSE a[j] * b[j] + Dot(a, b, j + 1)
MatVec(M, x) == [i \in 1..Len(M) |-> Dot(M[i], x, 1)]
VecAdd(a, b) == [i \in 1..Len(a) |-> a[i] + b[i]]
ZeroMatrix(rows, cols) == [i \in 1..rows |-> [j \in 1..cols |-> 0]]
Column(M, j) == [i \in 1..Len(M) |-> M[i][j]]
MatMul(A, B) ==
    [i \in 1..Len(A) |->
        [j \in 1..(IF Len(B) = 0 THEN 0 ELSE Len(B[1])) |-> Dot(A[i], Column(B, j), 1)]]

\* RunTimeStep, lines 198-216: the offsets and the number of constraints
CountConstraints(d) ==
    LET d1 == CASE d.solver_mode = "NORMAL" ->
                     [d EXCEPT !.rigid_rigid_offset = 1,
                               !.num_unilaterals = 1 * d.num_rigid_contacts]
                [] d.solver_mode = "SLIDING" ->
                     [d EXCEPT !.rigid_rigid_offset = 3,
                               !.num_unilaterals = 3 * d.num_rigid_contacts]
                [] d.solver_mode = "SPINNING" ->
                     [d EXCEPT !.rigid_rigid_offset = 6,
                               !.num_unilaterals = 6 * d.num_rigid_contacts]
                [] OTHER -> d
    IN  [d1 EXCEPT !.num_constraints =
             d1.num_unilaterals + d1.num_bilaterals + d1.node_constraints + d1.fea_constraints]

\* ComputeD as it would be if the Jacobian rows were written before the
\* sparsity pattern is declared
ComputeD_BuildFirst(d) ==
    LET d1 == TimerStart(d, "ChLcpSolverParallel_D")
        d3 == LogEach(d1, "Build_D", Containers, 1)
        d4 == LogEach(d3, "GenerateSparsity", Containers, 1)
    IN  IF d.num_constraints <= 0
        THEN d1
        ELSE TimerStop(d4, "ChLcpSolverParallel_D")

ComputeD(d) ==
    LET d1 == TimerStart(d, "ChLcpSolverParallel_D")
        num_normal == 1 * d.num_rigid_contacts
        num_tangential == 2 * d.num_rigid_contacts
        num_spinning == 3 * d.num_rigid_contacts
        base_rows == d.num_bilaterals + d.node_constraints + d.fea_constraints
        num_rows == CASE d.solver_mode = "NORMAL" -> base_rows + num_normal
                      [] d.solver_mode = "SLIDING" -> base_rows + num_normal + num_tangential
                      [] d.solver_mode = "SPINNING" ->
                             base_rows + num_normal + num_tangential + num_spinning
                      [] OTHER -> base_rows
        d2 == [d1 EXCEPT !.D_T_rows = num_rows, !.D_T_cols = d.num_dof,
                         !.M_invD_rows = d.num_dof, !.M_invD_cols = num_rows]
        d3 == LogEach(d2, "GenerateSparsity", Containers, 1)
        d4 == LogEach(d3, "Build_D", Containers, 1)
        d5 == [d4 EXCEPT !.D_rows = d4.D_T_cols, !.D_cols = d4.D_T_rows]
        d6 == [d5 EXCEPT !.M_invD_rows = d5.num_dof, !.M_invD_cols = d5.D_cols,
                         !.M_invD = MatMul(d5.M_inv, ZeroMatrix(d5.D_rows, d5.D_cols))]
    IN  IF d.num_constraints <= 0
        THEN d1
        ELSE TimerStop(d6, "ChLcpSolverParallel_D")

ComputeE(d) ==
    LET d1 == TimerStart(d, "ChLcpSolverParallel_E")
        d2 == [d1 EXCEPT !.E_size = d.num_constraints]
        d3 == LogEach(d2, "Build_E",
                      <<"rigid_rigid", "bilateral", "fea_container", "node_container">>, 1)
    IN  IF d.num_constraints <= 0
        THEN d1
        ELSE TimerStop(d3, "ChLcpSolverParallel_E")

ComputeR(d) ==
    LET d1 == TimerStart(d, "ChLcpSolverParallel_R")
        d2 == [d1 EXCEPT !.b_size = d.num_constraints, !.R_full_size = d.num_constraints]
        d3 == LogEach(d2, "Build_b", Containers, 1)
    IN  IF d.num_constraints <= 0
        THEN d1
        ELSE TimerStop(d3, "ChLcpSolverParallel_R")

ComputeN(d) ==
    IF d.compute_N = FALSE
    THEN d
    ELSE LET d1 == TimerStart(d, "ChLcpSolverParallel_N")
             d2 == [d1 EXCEPT !.Nshur_size = d.D_T_rows]
         IN  TimerStop(d2, "ChLcpSolverParallel_N")

SetR(d) ==
    IF d.num_constraints <= 0
    THEN d
    ELSE [d EXCEPT !.R_size = d.num_constraints]

\* ComputeImpulses as it would be if the multipliers were left out
ComputeImpulses_NoGamma(d) == [d EXCEPT !.v = VecAdd(d.v, MatVec(d.M_inv, d.hf))]

\* The product M_invD * gamma needs as many multipliers as M_invD has columns;
\* the matrix library throws when it does not, and v keeps its value.
ComputeImpulses(d) ==
    IF d.num_constraints > 0
    THEN IF \A i \in 1..Len(d.M_invD) : Len(d.M_invD[i]) = Len(d.gamma)
         THEN [d EXCEPT !.v = VecAdd(VecAdd(d.v, MatVec(d.M_inv, d.hf)),
                                     MatVec(d.M_invD, d.gamma))]
         ELSE d
    ELSE [d EXCEPT !.v = VecAdd(d.v, MatVec(d.M_inv, d.hf))]

\* solver->Solve(...): the iterative solver is given gamma and leaves its
\* solution in it; the call is logged with the gamma it was handed.
Solve(d, max_iter) ==
    [d EXCEPT !.calls = Append(@, [fn |-> "Solve", who |-> d.local_solver_mode,
                                   gamma_in |-> d.gamma]),
              !.gamma = [i \in 1..Len(d.gamma) |-> 1],
              !.total_iteration = @ + max_iter]

\* A stage that clears the multipliers before it solves
SolveStage_ResetGamma(d, stage, enabled, max_iter) ==
    IF enabled /\ max_iter > 0
    THEN Solve(SetR([d EXCEPT !.local_solver_mode = stage,
                              !.gamma = [i \in 1..Len(d.gamma) |-> 0]]), max_iter)
    ELSE d

\* one of the three stages of lines 258-300
SolveStage(d, stage, enabled, max_iter) ==
    IF enabled /\ max_iter > 0
    THEN Solve(SetR([d EXCEPT !.local_solver_mode = stage]), max_iter)
    ELSE d

RunTimeStep(d) ==
    LET d0 == [d EXCEPT !.calls = <<>>]
        d1 == CountConstraints(d0)
        d2 == Log(d1, "ComputeInvMassMatrix", "solver")
        d3 == [d2 EXCEPT !.gamma = [i \in 1..d2.num_constraints |-> 0]]
        d4 == LogEach(d3, "Setup", Containers, 1)
        d5 == [d4 EXCEPT !.total_iteration = 0]
        d6 == ComputeN(ComputeR(ComputeE(ComputeD(d5))))
        d7 == TimerStart(d6, "ChLcpSolverParallel_Solve")
        d8 == LogEach(d7, "PreSolve", <<"node_container", "fea_container">>, 1)
        d9 == Log(d8, "PerformStabilization", "solver")
        m == d.solver_mode
        s1 == SolveStage(d9, "NORMAL", m \in {"NORMAL", "SLIDING", "SPINNING"},
                         d.max_iteration_normal)
        s2 == SolveStage(s1, "SLIDING", m \in {"SLIDING", "SPINNING"}, d.max_iteration_sliding)
        s3 == SolveStage(s2, "SPINNING", m = "SPINNING", d.max_iteration_spinning)
        e1 == [s3 EXCEPT !.Fc_current = FALSE]
        e2 == LogEach(e1, "PostSolve", <<"node_container", "fea_container">>, 1)
        e3 == TimerStop(e2, "ChLcpSolverParallel_Solve")
    IN  ComputeImpulses(Log(e3, "ComputeImpulses", "solver"))

DoComputeImpulses ==
    /\ \A i \in DOMAIN dm.v : Abs(ComputeImpulses(dm).v[i]) <= MaxVel
    /\ dm' = ComputeImpulses(dm)
    /\ op' = Call("ComputeImpulses", FALSE, FALSE)
    /\ UNCHANGED <<body, descriptor, Rvec, last_force, link, motor, matter>>

\* A time step: the solver mode and the constraint counts are what the
\* settings, the collision detection and the containers hold when it starts.
DoRunTimeStep(mode, contacts, bilaterals, node_n, fea_n) ==
    /\ dm' = RunTimeStep([dm EXCEPT !.solver_mode = mode,
                                    !.num_rigid_contacts = contacts,
                                    !.num_bilaterals = bilaterals,
                                    !.node_constraints = node_n,
                                    !.fea_constraints = fea_n])
    /\ op' = CallArg("RunTimeStep", FALSE, <<mode, contacts, bilaterals, node_n, fea_n>>, FALSE)
    /\ UNCHANGED <<body, descriptor, Rvec, last_force, link, motor, matter>>

-----------------------------------------------------------------------------
(* ChLinkMateGeneric: the Enabled / Disabled / Broken states of the link *)

Coords == {"x", "y", "z", "rx", "ry", "rz"}

NewLink == [constrained |-> Coords, redundant |-> {}, broken |-> FALSE, disabled |-> FALSE]

\* SetBroken as a plain setter of the flag
SetBroken_Setter(l, mon) == [l EXCEPT !.broken = mon]

\* Breaking is one-way: a call on a broken link changes nothing.
SetBroken(l, mon) == IF l.broken THEN l ELSE [l EXCEPT !.broken = mon]

SetDisabled(l, mdis) == [l EXCEPT !.disabled = mdis]

RestoreRedundant(l) == [l EXCEPT !.redundant = {}]
RestoreRedundantResult(l) == Cardinality(l.redundant)

SetConstrainedCoords(l, mc) == [l EXCEPT !.constrained = mc, !.redundant = {}]

\* the scalar constraints the link hands to assembly
ActiveConstraints(l) ==
    IF l.broken \/ l.disabled THEN {} ELSE l.constrained \ l.redundant

DoSetBroken(mon) ==
    /\ link' = SetBroken(link, mon)
    /\ op' = Call("SetBroken", mon, link.broken /\ ~mon)
    /\ UNCHANGED <<body, descriptor, Rvec, last_force, dm, motor, matter>>

DoSetDisabled(mdis) ==
    /\ link' = SetDisabled(link, mdis)
    /\ op' = Call("SetDisabled", mdis, FALSE)
    /\ UNCHANGED <<body, descriptor, Rvec, last_force, dm, motor, matter>>

DoRestoreRedundant ==
    /\ link' = RestoreRedundant(link)
    /\ op' = Call("RestoreRedundant", FALSE, RestoreRedundantResult(link) > 0)
    /\ UNCHANGED <<body, descriptor, Rvec, last_force, dm, motor, matter>>

DoSetConstrainedCoords(mc) ==
    /\ link' = SetConstrainedCoords(link, mc)
    /\ op' = Call("SetConstrainedCoords", FALSE, FALSE)
    /\ UNCHANGED <<body, descriptor, Rvec, last_force, dm, motor, matter>>

\* the solver finds one constraint of the link redundant
DoMarkRedundant(c) ==
    /\ c \in ActiveConstraints(link)
    /\ link' = [link EXCEPT !.redundant = @ \cup {c}]
    /\ op' = Call("MarkRedundant", FALSE, FALSE)
    /\ UNCHANGED <<body, descriptor, Rvec, last_force, dm, motor, matter>>

-----------------------------------------------------------------------------
(* ChShaft and ChShaftsMotorAngle.  The unit of time is the time step, so   *)
(* that dt = 1 and the reaction factor 1/dt = 1; impulses are torque * dt.   *)

\* ChFunction: a ramp y0 + slope * x (a constant when slope = 0)
FunctionRamp(y0, slope) == [y0 |-> y0, slope |-> slope]
GetVal(f, x) == f.y0 + f.slope * x
GetDer(f, x) == f.slope

NewShaft ==
    [ torque |-> 0, pos |-> 0, pos_dt |-> 0, pos_dtdt |-> 0, inertia |-> 1,
      fixed |-> FALSE, qb |-> 0, fb |-> 0 ]

NewMotor ==
    [ ChTime |-> 0,
      f_rot |-> FunctionRamp(0, 1), rot_offset |-> 0,
      violation |-> 0, motor_torque |-> 0,
      constraint |-> [l_i |-> 0, b_i |-> 0, Cq_a |-> 0, Cq_b |-> 0],
      shaft1 |-> NewShaft, shaft2 |-> NewShaft,
      L |-> 0, Qc |-> 0 ]

\* angle of shaft 1 with respect to shaft 2
GetMotorAngle(m) == m.shaft1.pos - m.shaft2.pos

MotorUpdate(m, mytime) ==
    [m EXCEPT !.ChTime = mytime,
              !.violation = GetMotorAngle(m) - GetVal(m.f_rot, mytime) - m.rot_offset]

IntStateGatherReactions(m) == [m EXCEPT !.L = m.motor_torque]
IntStateScatterReactions(m, L) == [m EXCEPT !.motor_torque = L]

Min2(x, y) == IF x <= y THEN x ELSE y

\* IntLoadConstraint_C as it would be if do_clamp were ignored
IntLoadConstraint_C_NoClamp(m, c, do_clamp, recovery_clamp) ==
    [m EXCEPT !.Qc = @ + c * (GetMotorAngle(m) - GetVal(m.f_rot, m.ChTime) - m.rot_offset)]

IntLoadConstraint_C(m, c, do_clamp, recovery_clamp) ==
    LET res == c * (GetMotorAngle(m) - GetVal(m.f_rot, m.ChTime) - m.rot_offset)
        res2 == IF do_clamp
                THEN Min2(Max2(res, -recovery_clamp), recovery_clamp)
                ELSE res
    IN  [m EXCEPT !.Qc = @ + res2]

IntLoadConstraint_Ct(m, c) ==
    LET ct == -GetDer(m.f_rot, m.ChTime)
    IN  [m EXCEPT !.Qc = @ + c * ct]

MotorIntToDescriptor(m, L, Qc) ==
    [m EXCEPT !.constraint.l_i = L, !.constraint.b_i = Qc]

MotorIntFromDescriptor(m) == [m EXCEPT !.L = m.constraint.l_i]

ConstraintsBiReset(m) == [m EXCEPT !.constraint.b_i = 0]

ConstraintsBiLoad_C(m, factor, recovery_clamp, do_clamp) ==
    LET res == factor * (GetMotorAngle(m) - GetVal(m.f_rot, m.ChTime) - m.rot_offset)
    IN  [m EXCEPT !.constraint.b_i = @ + factor * res]

ConstraintsBiLoad_Ct(m, factor) ==
    LET ct == -GetDer(m.f_rot, m.ChTime)
    IN  [m EXCEPT !.constraint.b_i = @ + factor * ct]

\* ConstraintsLoadJacobians as it would be with the same sign on both shafts
ConstraintsLoadJacobians_SameSign(m) ==
    [m EXCEPT !.constraint.Cq_a = 1, !.constraint.Cq_b = 1]

ConstraintsLoadJacobians(m) ==
    [m EXCEPT !.constraint.Cq_a = 1, !.constraint.Cq_b = -1]

\* ConstraintsFetch_react as it would be without the change of sign
ConstraintsFetch_react_NoSign(m, factor) ==
    [m EXCEPT !.motor_torque = m.constraint.l_i * factor]

ConstraintsFetch_react(m, factor) ==
    [m EXCEPT !.motor_torque = -m.constraint.l_i * factor]

\* ChShaft: the solver interface of a shaft
ShaftVariablesFbReset(sh) == [sh EXCEPT !.fb = 0]
ShaftVariablesFbLoadForces(sh, factor) == [sh EXCEPT !.fb = @ + sh.torque * factor]
ShaftVariablesQbLoadSpeed(sh) == [sh EXCEPT !.qb = sh.pos_dt]
ShaftVariablesFbIncrementMq(sh) == [sh EXCEPT !.fb = @ + sh.inertia * sh.qb]
ShaftVariablesQbSetSpeed(sh, step) ==
    [sh EXCEPT !.pos_dt = sh.qb,
               !.pos_dtdt = IF step # 0 THEN (sh.qb - sh.pos_dt) \div step ELSE @]
ShaftVariablesQbIncrementPosition(sh, step) == [sh EXCEPT !.pos = @ + sh.qb * step]

\* The converged bilateral solve of the descriptor with the two shafts and the
\* motor's constraint:  M q - Cq' l = fb,  Cq q + b_i = 0.
SolveNum(m) ==
    -(m.constraint.b_i * m.shaft1.inertia * m.shaft2.inertia
        + m.constraint.Cq_a * m.shaft1.fb * m.shaft2.inertia
        + m.constraint.Cq_b * m.shaft2.fb * m.shaft1.inertia)
SolveDen(m) ==
    m.constraint.Cq_a * m.constraint.Cq_a * m.shaft2.inertia
        + m.constraint.Cq_b * m.constraint.Cq_b * m.shaft1.inertia
SolveBilateral(m) ==
    LET l == SolveNum(m) \div SolveDen(m)
    IN  [m EXCEPT !.constraint.l_i = l,
                  !.shaft1.qb = (m.shaft1.fb + m.constraint.Cq_a * l) \div m.shaft1.inertia,
                  !.shaft2.qb = (m.shaft2.fb + m.constraint.Cq_b * l) \div m.shaft2.inertia]
\* the solution is a whole number of units
SolveIsExact(m) ==
    /\ SolveDen(m) # 0
    /\ SolveNum(m) % SolveDen(m) = 0
    /\ (m.shaft1.fb + m.constraint.Cq_a * (SolveNum(m) \div SolveDen(m))) % m.shaft1.inertia = 0
    /\ (m.shaft2.fb + m.constraint.Cq_b * (SolveNum(m) \div SolveDen(m))) % m.shaft2.inertia = 0

\* what the step has ready for the solver: forces and momenta in fb, the
\* Jacobian and the bias of the constraint
MotorStepSetup(m, dt) ==
    LET m1 == MotorUpdate(m, m.ChTime)
        m2 == [m1 EXCEPT
                 !.shaft1 = ShaftVariablesFbIncrementMq(ShaftVariablesQbLoadSpeed(
                                ShaftVariablesFbLoadForces(ShaftVariablesFbReset(@), dt))),
                 !.shaft2 = ShaftVariablesFbIncrementMq(ShaftVariablesQbLoadSpeed(
                                ShaftVariablesFbLoadForces(ShaftVariablesFbReset(@), dt)))]
        m3 == ConstraintsLoadJacobians(m2)
        m4 == ConstraintsBiLoad_Ct(ConstraintsBiLoad_C(ConstraintsBiReset(m3), 1, 0, FALSE), 1)
    IN  m4

\* one time step of the system holding the two shafts and the motor
MotorStep(m, dt) ==
    LET m5 == SolveBilateral(MotorStepSetup(m, dt))
        m6 == ConstraintsFetch_react(m5, 1)
        m7 == [m6 EXCEPT
                 !.shaft1 = ShaftVariablesQbIncrementPosition(ShaftVariablesQbSetSpeed(@, dt), dt),
                 !.shaft2 = ShaftVariablesQbIncrementPosition(ShaftVariablesQbSetSpeed(@, dt), dt)]
    IN  MotorUpdate(m7, m.ChTime + dt)

MotorUnchanged == UNCHANGED <<body, descriptor, Rvec, last_force, dm, link, matter>>

DoSetInertia(which, newJ) ==
    /\ newJ > 0
    /\ motor' = IF which = 1 THEN [motor EXCEPT !.shaft1.inertia = newJ]
                             ELSE [motor EXCEPT !.shaft2.inertia = newJ]
    /\ op' = CallArg("SetInertia", FALSE, <<which, newJ>>, FALSE)
    /\ MotorUnchanged

DoSetAppliedTorque(mtorque) ==
    /\ motor' = [motor EXCEPT !.shaft1.torque = mtorque]
    /\ op' = CallArg("SetAppliedTorque", FALSE, <<mtorque>>, FALSE)
    /\ MotorUnchanged

DoSetPos(mp) ==
    /\ motor' = [motor EXCEPT !.shaft1.pos = mp]
    /\ op' = CallArg("SetPos", FALSE, <<mp>>, FALSE)
    /\ MotorUnchanged

DoSetAngleFunction(function) ==
    /\ motor' = [motor EXCEPT !.f_rot = function]
    /\ op' = CallArg("SetAngleFunction", FALSE, <<function>>, FALSE)
    /\ MotorUnchanged

DoSetAngleOffset(mo) ==
    /\ motor' = [motor EXCEPT !.rot_offset = mo]
    /\ op' = CallArg("SetAngleOffset", FALSE, <<mo>>, FALSE)
    /\ MotorUnchanged

DoMotorUpdate(mytime) ==
    /\ mytime <= MaxSteps
    /\ motor' = MotorUpdate(motor, mytime)
    /\ op' = CallArg("MotorUpdate", FALSE, <<mytime>>, FALSE)
    /\ MotorUnchanged

DoIntLoadConstraint_C(c, do_clamp, recovery_clamp) ==
    /\ Abs(IntLoadConstraint_C(motor, c, do_clamp, recovery_clamp).Qc) <= MaxBias
    /\ motor' = IntLoadConstraint_C(motor, c, do_clamp, recovery_clamp)
    /\ op' = CallArg("IntLoadConstraint_C", do_clamp, <<c, recovery_clamp>>, FALSE)
    /\ MotorUnchanged

DoIntLoadConstraint_Ct(c) ==
    /\ Abs(IntLoadConstraint_Ct(motor, c).Qc) <= MaxBias
    /\ motor' = IntLoadConstraint_Ct(motor, c)
    /\ op' = CallArg("IntLoadConstraint_Ct", FALSE, <<c>>, FALSE)
    /\ MotorUnchanged

DoMotorIntToDescriptor(L) ==
    /\ motor' = MotorIntToDescriptor(motor, L, motor.Qc)
    /\ op' = CallArg("MotorIntToDescriptor", FALSE, <<L>>, FALSE)
    /\ MotorUnchanged

DoMotorIntFromDescriptor ==
    /\ motor' = MotorIntFromDescriptor(motor)
    /\ op' = Call("MotorIntFromDescriptor", FALSE, FALSE)
    /\ MotorUnchanged

DoIntStateScatterReactions(L) ==
    /\ motor' = IntStateScatterReactions(motor, L)
    /\ op' = CallArg("IntStateScatterReactions", FALSE, <<L>>, FALSE)
    /\ MotorUnchanged

DoIntStateGatherReactions ==
    /\ motor' = IntStateGatherReactions(motor)
    /\ op' = Call("IntStateGatherReactions", FALSE, FALSE)
    /\ MotorUnchanged

DoConstraintsFetch_react(factor) ==
    /\ motor' = ConstraintsFetch_react(motor, factor)
    /\ op' = CallArg("ConstraintsFetch_react", FALSE, <<factor>>, FALSE)
    /\ MotorUnchanged

DoConstraintsBiReset ==
    /\ motor' = ConstraintsBiReset(motor)
    /\ op' = Call("ConstraintsBiReset", FALSE, FALSE)
    /\ MotorUnchanged

DoConstraintsBiLoad_C(factor, recovery_clamp, do_clamp) ==
    /\ Abs(ConstraintsBiLoad_C(motor, factor, recovery_clamp, do_clamp).constraint.b_i) <= MaxBias
    /\ motor' = ConstraintsBiLoad_C(motor, factor, recovery_clamp, do_clamp)
    /\ op' = CallArg("ConstraintsBiLoad_C", do_clamp, <<factor, recovery_clamp>>, FALSE)
    /\ MotorUnchanged

DoMotorStep ==
    /\ motor.ChTime + 1 <= MaxSteps
    /\ SolveIsExact(MotorStepSetup(motor, 1))
    /\ motor' = MotorStep(motor, 1)
    /\ op' = Call("MotorStep", FALSE, FALSE)
    /\ MotorUnchanged

\* ---------------------------------------------------------------------------
\* ChMatterPeridynamics: a cluster of nodes
\* ---------------------------------------------------------------------------
\* Masses are exact fractions <<numerator, denominator>>; a node's volume is
\* in units of 0.01, the volume a node is constructed with.

RECURSIVE Gcd(_, _)
Gcd(a, b) == IF b = 0 THEN Abs(a) ELSE Gcd(b, a % b)

FracNorm(f) ==
    LET g == Gcd(f[1], f[2])
    IN  IF g = 0 THEN f ELSE <<f[1] \div g, f[2] \div g>>

FracAdd(f, g) == FracNorm(<<f[1] * g[2] + g[1] * f[2], f[2] * g[2]>>)

\* ChNodePeridynamics constructor: mass 0.01, volume 0.01.
NewNode ==
    [ pos |-> VNULL, pos_ref |-> VNULL, pos_dt |-> VNULL,
      mass |-> <<1, 100>>, volume |-> 1, h_rad |-> 0,
      is_elastic |-> FALSE, is_boundary |-> FALSE,
      F_peridyn |-> VNULL,
      UserForce |-> VNULL, density |-> 1, fb |-> VNULL,
      J |-> 0, Amoment |-> 0, FA |-> 0,
      t_strain |-> 0, e_strain |-> 0, p_strain |-> 0, e_stress |-> 0 ]

\* ChMatterPeridynamics constructor: no nodes; bounds holds the bonds of the
\* material, keyed by the pair of node indices.
NewMatter == [nodes |-> <<>>, density |-> 0, bounds |-> <<>>, r |-> 2, ChTime |-> 0]

\* ChMatterPeridynamics::AddNode
AddNode(m, initial_state, mhorizon) ==
    [m EXCEPT !.nodes = Append(@, [NewNode EXCEPT !.pos = initial_state,
                                                  !.pos_ref = initial_state,
                                                  !.h_rad = mhorizon])]

SetLast(m, field, value) ==
    [m EXCEPT !.nodes[Len(m.nodes)][field] = value]

\* The body of FillBox's triple loop, cell k of samples s in the loop's order
\* (ix outermost, iz innermost).  randomness is zero, so the random offsets
\* vanish; boxcoords is the identity.
RECURSIVE FillCells(_, _, _, _, _, _, _)
FillCells(m, size, spacing, horizon, do_centeredcube, s, k) ==
    IF k >= s[1] * s[2] * s[3] THEN m
    ELSE LET ix == k \div (s[2] * s[3])
             iy == (k \div s[3]) % s[2]
             iz == k % s[3]
             pos == <<ix * spacing - size[1] \div 2, iy * spacing - size[2] \div 2,
                      iz * spacing - size[3] \div 2>>
             edge == \/ ix = 0 \/ ix = s[1] - 1 \/ iy = 0 \/ iy = s[2] - 1
                     \/ iz = 0 \/ iz = s[3] - 1
             last == ix = s[1] - 1 \/ iy = s[2] - 1 \/ iz = s[3] - 1
             m1 == SetLast(AddNode(m, pos, horizon), "is_elastic", TRUE)
             m2 == IF edge THEN SetLast(m1, "is_boundary", TRUE) ELSE m1
             pos2 == Vadd(pos, <<spacing \div 2, spacing \div 2, spacing \div 2>>)
             m3 == IF do_centeredcube /\ ~last
                   THEN SetLast(AddNode(m2, pos2, horizon), "is_elastic", TRUE)
                   ELSE m2
         IN  FillCells(m3, size, spacing, horizon, do_centeredcube, s, k + 1)

\* ChMatterPeridynamics::FillBox.  totsamples counts the nodes this call
\* created; the mass loop runs over every node of the container.
FillBox(m, size, spacing, initial_density, do_centeredcube, horizon_sfactor) ==
    LET s == <<size[1] \div spacing, size[2] \div spacing, size[3] \div spacing>>
        filled == FillCells(m, size, spacing, horizon_sfactor * spacing,
                            do_centeredcube, s, 0)
        totsamples == Len(filled.nodes) - Len(m.nodes)
        mtotvol == size[1] * size[2] * size[3]
        mtotmass == mtotvol * initial_density
        nodemass == FracNorm(<<mtotmass, totsamples>>)
    IN  [filled EXCEPT !.nodes = [ip \in 1..Len(filled.nodes) |->
                                     [filled.nodes[ip] EXCEPT !.mass = nodemass]],
                       !.density = initial_density]

\* The number of nodes FillBox creates for a box.
FillCount(size, spacing, do_centeredcube) ==
    Len(FillBox(NewMatter, size, spacing, 1, do_centeredcube, 1).nodes)

\* ChMatterPeridynamics::IntStateScatter: node positions and speeds from the
\* state vectors, then the time (Update only passes the time on).
MatterIntStateScatter(m, x, v, T) ==
    [m EXCEPT !.nodes = [j \in 1..Len(m.nodes) |->
                            [m.nodes[j] EXCEPT !.pos = x[j], !.pos_dt = v[j]]],
              !.ChTime = T]

Dot3(a, b) == a[1] * b[1] + a[2] * b[2] + a[3] * b[3]

\* 18 * k_bulk / (pi * horizon^4), in force units that make it 16 at horizon 8.
K_pih4(horizon) == 65536 \div (horizon * horizon * horizon * horizon)

\* VisitBond as it would be if a compressed bond snapped like a stretched one
VisitBond_BreaksOnCompression(m, key) ==
    LET mbound    == m.bounds[key]
        nodeA     == m.nodes[mbound.nodeA]
        nodeB     == m.nodes[mbound.nodeB]
        old_vdist == Vsub(nodeB.pos_ref, nodeA.pos_ref)
        vdist     == Vsub(nodeB.pos, nodeA.pos)
        old_sdist == VLength(old_vdist)
        sdist     == VLength(vdist)
        vdir      == Vnormalize(vdist)
        svel      == Dot3(vdir, Vsub(nodeB.pos_dt, nodeA.pos_dt))
        force_val == (K_pih4(nodeA.h_rad) * (sdist - old_sdist)) \div (2 * old_sdist)
                     + (IF m.r > 0 THEN (m.r * svel) \div 2 ELSE 0)
        snaps     == 100 * Abs(sdist - old_sdist) > 8 * old_sdist
        m1 == [m EXCEPT
                 !.nodes[mbound.nodeB].F_peridyn =
                     Vadd(@, Vmul(vdir, -force_val * nodeA.volume)),
                 !.nodes[mbound.nodeA].F_peridyn =
                     Vadd(@, Vmul(vdir, force_val * nodeB.volume))]
    IN  IF snaps
        THEN [m1 EXCEPT !.bounds[key].broken = TRUE,
                        !.nodes[mbound.nodeA].is_boundary = TRUE,
                        !.nodes[mbound.nodeB].is_boundary = TRUE]
        ELSE m1

\* ChMatterPeriBulkElastic::ComputeForces, the branch for a bond that is not
\* broken: the bond force on both nodes, then the break test against
\* max_stretch = 0.08.
VisitBond(m, key) ==
    LET mbound    == m.bounds[key]
        nodeA     == m.nodes[mbound.nodeA]
        nodeB     == m.nodes[mbound.nodeB]
        old_vdist == Vsub(nodeB.pos_ref, nodeA.pos_ref)
        vdist     == Vsub(nodeB.pos, nodeA.pos)
        old_sdist == VLength(old_vdist)
        sdist     == VLength(vdist)
        vdir      == Vnormalize(vdist)
        svel      == Dot3(vdir, Vsub(nodeB.pos_dt, nodeA.pos_dt))
        force_val == (K_pih4(nodeA.h_rad) * (sdist - old_sdist)) \div (2 * old_sdist)
                     + (IF m.r > 0 THEN (m.r * svel) \div 2 ELSE 0)
        snaps     == 100 * (sdist - old_sdist) > 8 * old_sdist
        m1 == [m EXCEPT
                 !.nodes[mbound.nodeB].F_peridyn =
                     Vadd(@, Vmul(vdir, -force_val * nodeA.volume)),
                 !.nodes[mbound.nodeA].F_peridyn =
                     Vadd(@, Vmul(vdir, force_val * nodeB.volume))]
    IN  IF snaps
        THEN [m1 EXCEPT !.bounds[key].broken = TRUE,
                        !.nodes[mbound.nodeA].is_boundary = TRUE,
                        !.nodes[mbound.nodeB].is_boundary = TRUE]
        ELSE m1

EraseBound(m, key) ==
    [m EXCEPT !.bounds = [k \in (DOMAIN m.bounds) \ {key} |-> m.bounds[k]]]

\* The loop of ComputeForces over the bonds in the order the container
\* yields them.  Erasing the bond under the loop's iterator leaves that
\* iterator dangling; what the loop does next is not defined: with resume it
\* goes on to the following bond, without it the loop is over.
RECURSIVE VisitBounds(_, _, _, _)
VisitBounds(m, order, k, resume) ==
    IF k > Len(order) THEN m
    ELSE LET key    == order[k]
             mbound == m.bounds[key]
             far    == VLength(Vsub(m.nodes[mbound.nodeB].pos, m.nodes[mbound.nodeA].pos))
                           > m.nodes[mbound.nodeA].h_rad
         IN  IF ~mbound.broken
             THEN VisitBounds(VisitBond(m, key), order, k + 1, resume)
             ELSE IF far
                  THEN IF resume
                       THEN VisitBounds(EraseBound(m, key), order, k + 1, resume)
                       ELSE EraseBound(m, key)
                  ELSE VisitBounds(m, order, k + 1, resume)

ComputeForces(m, order, resume) == VisitBounds(m, order, 1, resume)

\* The orders in which a container can yield its bonds.
Orders(m) ==
    LET keys == DOMAIN m.bounds
    IN  {o \in [1..Cardinality(keys) -> keys] :
            \A i, j \in 1..Cardinality(keys) : o[i] = o[j] => i = j}

MaxForce == 4

\* The force evaluation shared by IntLoadResidual_F and VariablesFbLoadForces.
\* A tensor is isotropic and stands as its one diagonal value, so that the
\* determinant vanishes iff the value does and the inverse of 1 or -1 is
\* itself.  A node's mass in force units is 100 * mass (0.01 is 1).
NodeMass(node) == (100 * node.mass[1]) \div node.mass[2]

\* ChContinuumElastoplastic: no plastic flow, stress equal to strain.
ComputeReturnMapping(t_strain, e_strain, p_strain) == 0
ComputeElasticStress(strain) == strain

\* 1- per-node initialization
ResetNode(node) ==
    [node EXCEPT !.J = 0, !.Amoment = 0, !.t_strain = 0, !.e_stress = 0,
                 !.UserForce = VNULL, !.density = 0]

\* 2- edges->AccumulateStep1(): what the bonds of the node add to its J,
\* Amoment and density
AccumulateStep1(node, acc) ==
    [node EXCEPT !.J = @ + acc.J, !.Amoment = @ + acc.Amoment, !.density = @ + acc.density]

\* 3- per-node inversion of A and computation of strain and stress
InvertNode(node) ==
    LET n1 == [node EXCEPT !.volume = IF node.density > 0
                                      THEN NodeMass(node) \div node.density ELSE 0]
        M_tmp == n1.Amoment
    IN  IF M_tmp = 0
        THEN [n1 EXCEPT !.Amoment = 0, !.e_strain = 0]
        ELSE LET Ainv == M_tmp
                 M2 == Ainv * n1.J + 1
                 Jt == M2
                 mtensor == M2 * Jt - 1
                 flow == ComputeReturnMapping(mtensor, n1.e_strain, n1.p_strain)
                 proj_e_strain == n1.e_strain - flow + mtensor
                 stress == ComputeElasticStress(proj_e_strain)
             IN  [n1 EXCEPT !.Amoment = Ainv, !.J = Jt, !.t_strain = mtensor,
                            !.e_stress = stress,
                            !.FA = 2 * n1.volume * Jt * stress * Ainv]

\* 4- edges->AccumulateStep2(): the force the bonds of the node hand to it
AccumulateStep2(node, transfer) == [node EXCEPT !.UserForce = Vadd(@, transfer)]

EvaluateNode(node, acc, transfer) ==
    AccumulateStep2(InvertNode(AccumulateStep1(ResetNode(node), acc)), transfer)

\* 5- per-node load: gravity and UserForce
TotForce(node) == Vadd(node.UserForce, Vmul(G_acc, NodeMass(node)))

\* ChMatterPeridynamics::IntLoadResidual_F: the nodes after the evaluation
\* and the residual R, one vector per node.
MatterIntLoadResidual_F(m, R, c, acc, transfer) ==
    LET nodes == [j \in 1..Len(m.nodes) |-> EvaluateNode(m.nodes[j], acc[j], transfer[j])]
    IN  [ m |-> [m EXCEPT !.nodes = nodes],
          R |-> [j \in 1..Len(R) |-> Vadd(R[j], Vmul(TotForce(nodes[j]), c))] ]

\* ChMatterPeridynamics::VariablesFbLoadForces
MatterVariablesFbLoadForces(m, factor, acc, transfer) ==
    LET nodes == [j \in 1..Len(m.nodes) |-> EvaluateNode(m.nodes[j], acc[j], transfer[j])]
    IN  [m EXCEPT !.nodes = [j \in 1..Len(nodes) |->
                                [nodes[j] EXCEPT !.fb = Vadd(@, Vmul(TotForce(nodes[j]), factor))]]]

\* ChMatterPeridynamics::VariablesFbReset
MatterVariablesFbReset(m) ==
    [m EXCEPT !.nodes = [j \in 1..Len(m.nodes) |-> [m.nodes[j] EXCEPT !.fb = VNULL]]]

MatterUnchanged == UNCHANGED <<body, descriptor, Rvec, last_force, dm, link, motor>>

MaxNodes == 10

DoAddNode(initial_state, mhorizon) ==
    /\ Len(matter.nodes) < MaxNodes
    /\ matter' = AddNode(matter, initial_state, mhorizon)
    /\ op' = CallArg("AddNode", FALSE, <<initial_state, mhorizon>>, FALSE)
    /\ MatterUnchanged

DoFillBox(size, spacing, initial_density, do_centeredcube, horizon_sfactor) ==
    /\ Len(matter.nodes) + FillCount(size, spacing, do_centeredcube) <= MaxNodes
    /\ matter' = FillBox(matter, size, spacing, initial_density, do_centeredcube,
                         horizon_sfactor)
    /\ op' = CallArg("FillBox", FALSE, <<size, spacing, initial_density, do_centeredcube,
                                         horizon_sfactor>>, FALSE)
    /\ MatterUnchanged

MaxLoad == 3

DoSetUserForce(j, F) ==
    /\ j \in 1..Len(matter.nodes)
    /\ matter' = [matter EXCEPT !.nodes[j].UserForce = F]
    /\ op' = CallArg("SetUserForce", FALSE, <<j, F>>, FALSE)
    /\ MatterUnchanged

\* the residual starts from R; the call leaves its residual in op.ret
DoMatterIntLoadResidual_F(R, c, acc, transfer) ==
    /\ matter' = MatterIntLoadResidual_F(matter, R, c, acc, transfer).m
    /\ op' = CallArg("MatterIntLoadResidual_F", FALSE, <<R, c, acc, transfer>>,
                     MatterIntLoadResidual_F(matter, R, c, acc, transfer).R)
    /\ MatterUnchanged

DoMatterVariablesFbLoadForces(factor, acc, transfer) ==
    /\ \A j \in 1..Len(matter.nodes) : matter.nodes[j].fb[3] > -MaxLoad
    /\ matter' = MatterVariablesFbLoadForces(matter, factor, acc, transfer)
    /\ op' = CallArg("MatterVariablesFbLoadForces", FALSE, <<factor, acc, transfer>>, FALSE)
    /\ MatterUnchanged

DoMatterVariablesFbReset ==
    /\ matter' = MatterVariablesFbReset(matter)
    /\ op' = Call("MatterVariablesFbReset", FALSE, FALSE)
    /\ MatterUnchanged

DoMatterIntStateScatter(x, v, T) ==
    /\ Len(x) = Len(matter.nodes)
    /\ matter' = MatterIntStateScatter(matter, x, v, T)
    /\ op' = CallArg("MatterIntStateScatter", FALSE, <<x, v, T>>, FALSE)
    /\ MatterUnchanged

DoComputeForces(order, resume) ==
    /\ \A j \in 1..Len(matter.nodes) : VLengthInf(matter.nodes[j].F_peridyn) <= MaxForce
    /\ matter' = ComputeForces(matter, order, resume)
    /\ op' = CallArg("ComputeForces", resume, <<matter, order>>, FALSE)
    /\ MatterUnchanged

-----------------------------------------------------------------------------
(* Specifications *)

Init ==
    /\ body = NewBody
    /\ descriptor = {}
    /\ Rvec = <<VNULL, VNULL>>
    /\ op = Call("new", FALSE, FALSE)
    /\ last_force = NoForceYet
    /\ dm = NewDM
    /\ link = NewLink
    /\ motor = NewMotor
    /\ matter = NewMatter

\* what the body is scattered: its place, and rest or motion above the thresholds
Still == <<VNULL, VNULL>>
Moving == {<<<<1, 0, 0>>, VNULL>>, <<VNULL, <<0, 0, 1>>>>}
Here == <<body.pos, body.rot>>

\* Sleeping: a body that is stepped, pushed, fixed, put to sleep and asked
\* whether it could sleep, and whose variables are injected.
NextSleep ==
    \/ \E state \in BOOLEAN : DoSetBodyFixed(state)
    \/ \E state \in BOOLEAN : DoSetSleeping(state)
    \/ \E state \in BOOLEAN : DoSetUseSleeping(state)
    \/ DoTrySleeping
    \/ DoAccumulate_force(<<1, 0, 0>>, body.pos, FALSE)
    \/ \E v \in {Still} \cup Moving, T \in {body.ChTime, body.ChTime + 1} :
           DoIntStateScatter(Here, v, T, TRUE)
    \/ DoInjectVariables

SpecSleep == Init /\ [][NextSleep]_vars

\* the body's own data other than the COULDSLEEP flag and the sleep timer
NotSleepData(b) == [b EXCEPT !.bflags = b.bflags \ {"COULDSLEEP"}, !.sleep_starttime = 0]

\* the time the body has been below the thresholds, as TrySleeping measures it
Elapsed == body.ChTime - body.sleep_starttime

\* C2: a TrySleeping call on an active body that uses sleeping, is below both
\* speed thresholds and has been so for exactly sleep_time marks it COULDSLEEP
\* and returns true.
C2_MarkedAtSleepTime ==
    (/\ op.name = "TrySleeping"
     /\ GetUseSleeping(body) /\ ~GetSleeping(body) /\ ~body.fixed
     /\ Below(body)
     /\ Elapsed = sleep_time)
        => (BFlagGet(body, "COULDSLEEP") /\ op.ret)

\* C3: applying a force restarts the sleep timer: a body pushed when it had been
\* still for less than sleep_time is not marked COULDSLEEP before sleep_time
\* has passed since the push.
C3_ForceRestartsTimer ==
    (/\ op.name = "TrySleeping" /\ op.ret
     /\ last_force.t >= 0
     /\ last_force.elapsed < sleep_time)
        => body.ChTime - last_force.t >= sleep_time

C5_ActiveIffAwakeAndFree ==
    op.name = "InjectVariables" =>
        /\ "body" \in descriptor
        /\ (~body.var_disabled) <=> (~BFlagGet(body, "SLEEPING") /\ ~body.fixed)

\* the variables of a sleeping, not fixed body were injected and are disabled
C5_Witness ==
    /\ op.name = "InjectVariables"
    /\ BFlagGet(body, "SLEEPING") /\ ~body.fixed
    /\ body.var_disabled

-----------------------------------------------------------------------------
\* speeds the solver may leave in the body's variables: rest, or a linear speed
\* with a spin about an axis
Speeds == {<<VNULL, VNULL>>, <<<<0, 3, 0>>, <<0, 0, 3>>>>, <<<<0, 3, 0>>, <<1, 0, 0>>>>}

\* Speeds: the solver's speeds are stored in the variables of a body, fixed or
\* not, and the body is told to take them and to advance its position.
NextSpeed ==
    \/ \E state \in BOOLEAN : DoSetBodyFixed(state)
    \/ \E v \in Speeds : DoIntToDescriptor(v, <<VNULL, VNULL>>)
    \/ DoVariablesQbLoadSpeed
    \/ \E state \in BOOLEAN : DoSetLimitSpeed(state)
    \/ \E step \in {0, 1} : DoVariablesQbSetSpeed(step)
    \/ DoVariablesQbIncrementPosition(1)

SpecSpeed == Init /\ [][NextSpeed]_vars

\* C6: VariablesQbSetSpeed and VariablesQbIncrementPosition leave the position,
\* the rotation and the linear and angular velocity of a fixed body unchanged.
C6_FixedBodyNotIntegrated ==
    [][(body.fixed /\ op'.name \in {"VariablesQbSetSpeed", "VariablesQbIncrementPosition"})
           => /\ body'.pos = body.pos
              /\ body'.rot = body.rot
              /\ body'.pos_dt = body.pos_dt
              /\ GetAngVelLocal(body') = GetAngVelLocal(body)]_vars

-----------------------------------------------------------------------------
\* Forces: forces are put on a body, fixed or not, its totals are refreshed by
\* an update, and they are loaded in the residual and in the body's variables.
NextForce ==
    \/ \E state \in BOOLEAN : DoSetBodyFixed(state)
    \/ \E state \in BOOLEAN : DoSetNoGyroTorque(state)
    \/ DoAccumulate_torque(<<0, 1, 0>>, FALSE)
    \/ DoAddForce([force |-> <<0, 1, 0>>, torque |-> VNULL])
    \/ \E v \in {Still, <<VNULL, <<1, 0, 0>>>>} :
           DoIntStateScatter(Here, v, body.ChTime, TRUE)
    \/ \E c \in {1, 2} : DoIntLoadResidual_F(c)
    \/ \E factor \in {1, 2} : DoVariablesFbLoadForces(factor)
    \/ DoVariablesFbReset

SpecForce == Init /\ [][NextForce]_vars

\* C7: IntLoadResidual_F and VariablesFbLoadForces add nothing for a fixed body,
\* whatever the scaling factor.
C7_FixedBodyLoadsNoForce ==
    [][(body.fixed /\ op'.name \in {"IntLoadResidual_F", "VariablesFbLoadForces"})
           => (Rvec' = Rvec /\ body'.fb = body.fb)]_vars

-----------------------------------------------------------------------------
\* places the body is scattered to
Places == {<<VNULL, QUNIT>>, <<<<1, 0, 0>>, <<0, 0, 0, 1>>>>}

\* Scatter: the integrator writes a state in a body that carries a marker and
\* forces, asking for a full update or not.
NextScatter ==
    \/ \E state \in BOOLEAN : DoSetLimitSpeed(state)
    \/ DoAccumulate_force(<<1, 0, 0>>, body.pos, FALSE)
    \/ DoAddMarker
    \/ \E x \in Places, v \in Speeds, T \in {body.ChTime, body.ChTime + 1},
          full_update \in BOOLEAN :
           DoIntStateScatter(x, v, T, full_update)

SpecScatter == Init /\ [][NextScatter]_vars

\* C8: IntStateScatter without a full update writes the raw state only: the
\* velocities are stored as given, and the gyroscopic torque, the markers and
\* the force totals stay as they were.
C8_PartialScatterIsRaw ==
    [][(op'.name = "IntStateScatter" /\ ~op'.flag)
           => /\ body'.pos = op'.arg[1][1] /\ body'.rot = op'.arg[1][2]
              /\ body'.pos_dt = op'.arg[2][1]
              /\ GetAngVelLocal(body') = op'.arg[2][2]
              /\ body'.ChTime = op'.arg[3]
              /\ body'.gyro = body.gyro
              /\ body'.marklist = body.marklist
              /\ body'.Xforce = body.Xforce /\ body'.Xtorque = body.Xtorque]_vars

-----------------------------------------------------------------------------
\* the solver settings are chosen before the first step
InitSolver ==
    /\ body = NewBody
    /\ descriptor = {}
    /\ Rvec = <<VNULL, VNULL>>
    /\ op = Call("new", FALSE, FALSE)
    /\ last_force = NoForceYet
    /\ link = NewLink
    /\ motor = NewMotor
    /\ matter = NewMatter
    /\ \E it \in {0, MaxIter}, cn \in BOOLEAN :
           dm = [NewDM EXCEPT !.max_iteration_normal = it, !.max_iteration_sliding = it,
                              !.max_iteration_spinning = it, !.compute_N = cn]

\* Solver: time steps, between which the solver mode and the constraint counts
\* change.
NextSolver ==
    \E mode \in SolverModes, contacts \in 0..MaxContacts, bilaterals \in {0, 1},
       node_n \in {0, 1}, fea_n \in {0, 1} :
        DoRunTimeStep(mode, contacts, bilaterals, node_n, fea_n)

SpecSolver == InitSolver /\ [][NextSolver]_vars

\* rows of the Jacobian a contact takes in a solver mode
ModeRows(mode) ==
    CASE mode = "NORMAL" -> 1 [] mode = "SLIDING" -> 3 [] mode = "SPINNING" -> 6 [] OTHER -> 0

\* C1: after a time step the Jacobian D_T has num_constraints rows, and
\* num_constraints is (rows per contact of the mode) x contacts + bilaterals +
\* node constraints + FEA constraints, whatever the steps before it were.
C1_RowsMatchConstraints ==
    op.name = "RunTimeStep" =>
        /\ dm.D_T_rows = dm.num_constraints
        /\ dm.num_constraints =
               ModeRows(dm.solver_mode) * dm.num_rigid_contacts + dm.num_bilaterals
                   + dm.node_constraints + dm.fea_constraints

\* positions in the step's call log of the calls of fn
Idx(fn) == {i \in DOMAIN dm.calls : dm.calls[i].fn = fn}
Before(f, g) == \A i \in Idx(f), j \in Idx(g) : i < j
\* every container has had its call of fn before position s of the log
DoneBefore(fn, s) ==
    \A k \in DOMAIN Containers :
        \E i \in Idx(fn) : i < s /\ dm.calls[i].who = Containers[k]
BuildSteps == {"GenerateSparsity", "Build_D", "Build_b", "Build_E"}

-----------------------------------------------------------------------------
\* Link: a link is broken, disabled and enabled, its constrained coordinates
\* are chosen, and redundant constraints are found and restored.
NextLink ==
    \/ \E mon \in BOOLEAN : DoSetBroken(mon)
    \/ \E mdis \in BOOLEAN : DoSetDisabled(mdis)
    \/ DoRestoreRedundant
    \/ \E mc \in {Coords, {"x", "y", "z"}, {"rx"}} : DoSetConstrainedCoords(mc)
    \/ \E c \in Coords : DoMarkRedundant(c)

SpecLink == Init /\ [][NextLink]_vars

\* C9: a broken link stays broken and out of assembly whatever SetBroken,
\* SetDisabled or RestoreRedundant calls follow, and SetBroken(false) on a
\* broken link changes nothing.
C9_BrokenIsMonotone ==
    [][link.broken =>
           /\ link'.broken
           /\ ActiveConstraints(link') = {}
           /\ op'.name = "SetBroken" => link' = link]_vars

\* SetBroken(false) was called on a broken link
C9_Witness ==
    /\ op.name = "SetBroken" /\ ~op.flag /\ op.ret
    /\ link.broken

-----------------------------------------------------------------------------
\* the Solve calls of the step just made, in order
SolveCalls(d) == SelectSeq(d.calls, LAMBDA c : c.fn = "Solve")

\* C11: the first Solve of a step that has as many constraints as the step
\* before it is handed the multipliers that step left in gamma.
C11_WarmStart ==
    [][(/\ op'.name = "RunTimeStep"
        /\ op.name = "RunTimeStep"
        /\ dm'.num_constraints = dm.num_constraints
        /\ SolveCalls(dm') # <<>>)
           => SolveCalls(dm')[1].gamma_in = dm.gamma]_vars

\* C12: a step with no constraint resizes and writes none of D_T, M_invD, E, b,
\* R_full and R, calls no build step and never calls Solve.
C12_FreeFlightSkipsSolve ==
    [][(op'.name = "RunTimeStep" /\ dm'.num_constraints = 0)
           => /\ dm'.D_T_rows = dm.D_T_rows /\ dm'.D_T_cols = dm.D_T_cols
              /\ dm'.M_invD_rows = dm.M_invD_rows /\ dm'.M_invD_cols = dm.M_invD_cols
              /\ dm'.M_invD = dm.M_invD
              /\ dm'.E_size = dm.E_size /\ dm'.b_size = dm.b_size
              /\ dm'.R_full_size = dm.R_full_size /\ dm'.R_size = dm.R_size
              /\ \A i \in DOMAIN dm'.calls :
                     dm'.calls[i].fn \notin BuildSteps \cup {"Solve"}]_vars

-----------------------------------------------------------------------------
\* host data ComputeImpulses is given: two degrees of freedom, up to
\* MaxContacts constraints
Vec2 == {<<0, 0>>, <<1, 0>>, <<0, -1>>}
InvMasses == {<<<<1, 0>>, <<0, 1>>>>, <<<<1, 0>>, <<0, 2>>>>}
Multipliers(n) == [1..n -> {0, 1}]
Jacobians(n) == {[i \in 1..2 |-> [j \in 1..n |-> IF i = 1 THEN a ELSE b]] : a, b \in {0, 1}}

InitImpulses ==
    /\ body = NewBody
    /\ descriptor = {}
    /\ Rvec = <<VNULL, VNULL>>
    /\ op = Call("new", FALSE, FALSE)
    /\ last_force = NoForceYet
    /\ link = NewLink
    /\ motor = NewMotor
    /\ matter = NewMatter
    /\ \E n \in 0..MaxContacts, v0 \in Vec2, hf0 \in Vec2, Mi \in InvMasses :
       \E g \in Multipliers(n), J \in Jacobians(n) :
           dm = [NewDM EXCEPT !.num_constraints = n, !.v = v0, !.hf = hf0, !.M_inv = Mi,
                              !.gamma = g, !.M_invD = J,
                              !.M_invD_rows = 2, !.M_invD_cols = n]

\* Impulses: the new velocities are computed, step after step, from the same
\* forces and multipliers.
NextImpulses == DoComputeImpulses

SpecImpulses == InitImpulses /\ [][NextImpulses]_vars

\* M_inv * hf and M_invD * gamma for two degrees of freedom, written out
ForceTerm(d, i) == d.M_inv[i][1] * d.hf[1] + d.M_inv[i][2] * d.hf[2]
RECURSIVE GammaTerm(_, _, _)
GammaTerm(d, i, j) ==
    IF j = 0 THEN 0 ELSE d.M_invD[i][j] * d.gamma[j] + GammaTerm(d, i, j - 1)

\* C13: ComputeImpulses sets v to v + M_inv*hf + M_invD*gamma when there are
\* constraints and to v + M_inv*hf when there are none, and changes nothing else.
C13_ImpulsesFormula ==
    [][op'.name = "ComputeImpulses" =>
           /\ \A i \in 1..2 :
                  dm'.v[i] = dm.v[i] + ForceTerm(dm, i)
                             + (IF dm.num_constraints > 0
                                THEN GammaTerm(dm, i, dm.num_constraints) ELSE 0)
           /\ [dm' EXCEPT !.v = dm.v] = dm]_vars

\* velocities were computed with a multiplier that contributes to them
C13_Witness ==
    /\ op.name = "ComputeImpulses"
    /\ dm.num_constraints > 0
    /\ \E i \in 1..2 : GammaTerm(dm, i, dm.num_constraints) # 0

-----------------------------------------------------------------------------
\* angle functions given to the motor: f(t) = 0 and the unit ramp f(t) = t
AngleFunctions == {FunctionRamp(0, 0), FunctionRamp(0, 1)}

\* Motor steps: two shafts are given inertias and a torque, the motor its
\* function and offset, and the system is stepped.
NextMotorStep ==
    \/ \E which \in {1, 2}, newJ \in {1, 2, 3} : DoSetInertia(which, newJ)
    \/ \E mtorque \in {0, 10} : DoSetAppliedTorque(mtorque)
    \/ \E function \in AngleFunctions : DoSetAngleFunction(function)
    \/ \E mo \in {0, 1} : DoSetAngleOffset(mo)
    \/ DoMotorStep

SpecMotorStep == Init /\ [][NextMotorStep]_vars

\* the shafts are at rest at the same angle, locked by a motor with f(t) = 0
\* and no offset
RigidLockAtRest(m) ==
    /\ m.f_rot = FunctionRamp(0, 0) /\ m.rot_offset = 0
    /\ m.shaft1.pos = m.shaft2.pos
    /\ m.shaft1.pos_dt = 0 /\ m.shaft2.pos_dt = 0

\* C14: one step of shafts at rest that a motor with f(t) = 0 and offset 0 locks
\* leaves both with the angular velocity torque * dt / (I1 + I2), and a motor
\* torque of magnitude I2 times that velocity over dt; for inertias 2 and 3 and
\* a torque of 10 (an impulse of 10 units of 0.01) the velocity is 2 units.
C14_RigidCoupling ==
    [][(op'.name = "MotorStep" /\ RigidLockAtRest(motor))
           => /\ motor'.shaft1.pos_dt = motor'.shaft2.pos_dt
              /\ motor'.shaft1.pos_dt * (motor.shaft1.inertia + motor.shaft2.inertia)
                     = motor.shaft1.torque
              /\ Abs(motor'.motor_torque) = motor.shaft2.inertia * motor'.shaft2.pos_dt
              /\ (motor.shaft1.inertia = 2 /\ motor.shaft2.inertia = 3
                      /\ motor.shaft1.torque = 10)
                     => (motor'.shaft1.pos_dt = 2 /\ Abs(motor'.motor_torque) = 6)]_vars

\* the step of the scenario was made: inertias 2 and 3, torque 10
C14_Witness ==
    /\ op.name = "MotorStep"
    /\ motor.ChTime = 1
    /\ motor.shaft1.inertia = 2 /\ motor.shaft2.inertia = 3 /\ motor.shaft1.torque = 10
    /\ motor.f_rot = FunctionRamp(0, 0) /\ motor.rot_offset = 0
    /\ motor.shaft1.pos_dt = 2 /\ motor.shaft2.pos_dt = 2

-----------------------------------------------------------------------------
\* Motor bias: the angle, the function and the offset of a motor change, and
\* its bias is loaded in Qc.
NextMotorBias ==
    \/ \E mp \in -MaxAngle..MaxAngle : DoSetPos(mp)
    \/ \E function \in AngleFunctions : DoSetAngleFunction(function)
    \/ \E mo \in {0, 1} : DoSetAngleOffset(mo)
    \/ \E mytime \in {motor.ChTime, motor.ChTime + 1} : DoMotorUpdate(mytime)
    \/ \E c \in {-1, 1, 2}, do_clamp \in BOOLEAN, recovery_clamp \in {0, 1} :
           DoIntLoadConstraint_C(c, do_clamp, recovery_clamp)
    \/ DoIntLoadConstraint_Ct(1)

SpecMotorBias == Init /\ [][NextMotorBias]_vars

\* Motor reactions: the integrator and the solver write multipliers and a bias
\* to the motor's constraint, and they are read back as the motor's torque.
NextMotorReact ==
    \/ DoIntLoadConstraint_Ct(1)
    \/ \E L \in {-2, 0, 3} : DoMotorIntToDescriptor(L)
    \/ DoMotorIntFromDescriptor
    \/ \E L \in {-2, 0, 3} : DoIntStateScatterReactions(L)
    \/ DoIntStateGatherReactions
    \/ \E factor \in {1, 2} : DoConstraintsFetch_react(factor)

SpecMotorReact == Init /\ [][NextMotorReact]_vars

\* C19: ConstraintsFetch_react(factor) stores -l_i * factor as the motor torque
\* and changes nothing else: the multiplier and the bias keep their values.
C19_FetchReact ==
    [][op'.name = "ConstraintsFetch_react" =>
           /\ motor'.motor_torque = -(motor.constraint.l_i * op'.arg[1])
           /\ motor'.constraint = motor.constraint
           /\ [motor' EXCEPT !.motor_torque = motor.motor_torque] = motor]_vars

\* a non-zero multiplier was read back with a factor other than 1
C19_Witness ==
    /\ op.name = "ConstraintsFetch_react" /\ op.arg[1] = 2
    /\ motor.constraint.l_i = 3
    /\ motor.motor_torque = -6

\* the violation C = motor angle - f(t) - offset
MotorC(m) == GetMotorAngle(m) - GetVal(m.f_rot, m.ChTime) - m.rot_offset
Clamp(x, lo, hi) == IF x < lo THEN lo ELSE IF x > hi THEN hi ELSE x

\* C20 as stated: IntLoadConstraint_C adds c * clamp(C, -recovery_clamp,
\* recovery_clamp) to Qc when do_clamp is true and c * C when it is false.
C20_AsStated ==
    [][op'.name = "IntLoadConstraint_C" =>
           motor'.Qc = motor.Qc
               + (IF op'.flag
                  THEN op'.arg[1] * Clamp(MotorC(motor), -op'.arg[2], op'.arg[2])
                  ELSE op'.arg[1] * MotorC(motor))]_vars

\* C20: IntLoadConstraint_C adds clamp(c * C, -recovery_clamp, recovery_clamp)
\* to Qc when do_clamp is true and c * C when it is false, and changes nothing
\* else.
C20_ClampsScaledViolation ==
    [][op'.name = "IntLoadConstraint_C" =>
           /\ motor'.Qc = motor.Qc
                  + (IF op'.flag
                     THEN Clamp(op'.arg[1] * MotorC(motor), -op'.arg[2], op'.arg[2])
                     ELSE op'.arg[1] * MotorC(motor))
           /\ [motor' EXCEPT !.Qc = motor.Qc] = motor]_vars

\* a bias beyond the clamp was loaded with clamping and a factor of 2
C20_Witness ==
    /\ op.name = "IntLoadConstraint_C" /\ op.flag
    /\ op.arg = <<2, 1>>
    /\ MotorC(motor) = 2
    /\ motor.Qc = 1


\* ---------------------------------------------------------------------------
\* ChBody: lumped mass
\* ---------------------------------------------------------------------------

\* ChBody::SetInertiaXY: the three products of inertia, mirrored.
SetInertiaXY(b, iner) ==
    [b EXCEPT !.inertia = << <<b.inertia[1][1], iner[1], iner[2]>>,
                             <<iner[1], b.inertia[2][2], iner[3]>>,
                             <<iner[2], iner[3], b.inertia[3][3]>> >>]

\* ChBody::IntLoadLumpedMass_Md: Md is the six entries at the body's offset,
\* as <<translational, rotational>>; err is the error accumulator.
IntLoadLumpedMass_Md(b, Md, err, c) ==
    [ Md  |-> << Vadd(Md[1], <<c * b.mass, c * b.mass, c * b.mass>>),
                 Vadd(Md[2], <<c * b.inertia[1][1], c * b.inertia[2][2],
                               c * b.inertia[3][3]>>) >>,
      err |-> err + b.inertia[1][2] + b.inertia[1][3] + b.inertia[2][3] ]

DoSetInertiaXY(iner) ==
    /\ body' = SetInertiaXY(body, iner)
    /\ op' = CallArg("SetInertiaXY", FALSE, iner, FALSE)
    /\ UNCHANGED <<descriptor, Rvec, last_force, dm, link, motor, matter>>

DoIntLoadLumpedMass_Md(Md, err, c) ==
    /\ op' = CallArg("IntLoadLumpedMass_Md", FALSE, <<Md, err, c>>,
                     IntLoadLumpedMass_Md(body, Md, err, c))
    /\ UNCHANGED <<body, descriptor, Rvec, last_force, dm, link, motor, matter>>

\* Products of inertia (Ixy, Ixz, Iyz) that keep the tensor of NewBody
\* positive definite.
Products == {<<0, 0, 0>>, <<1, 0, 0>>, <<1, -1, 0>>, <<-1, 0, 1>>, <<1, 1, -1>>}

NextLumped ==
    \/ \E iner \in Products : DoSetInertiaXY(iner)
    \/ \E Md \in {<<VNULL, VNULL>>, <<<<1, 1, 1>>, <<2, 2, 3>>>>, <<<<0, 1, 0>>, VNULL>>},
          err \in {-1, 0, 1}, c \in 0..2 :
          DoIntLoadLumpedMass_Md(Md, err, c)

SpecLumped == Init /\ [][NextLumped]_vars

HasProducts(b) ==
    b.inertia[1][2] # 0 \/ b.inertia[1][3] # 0 \/ b.inertia[2][3] # 0

\* C18: IntLoadLumpedMass_Md adds c*mass and c*diagonal inertia to Md at the
\* body's offset, and err moves by a non-zero amount whenever the body has a
\* non-zero product of inertia, whatever the signs of the products.
C18_LumpedMassError ==
    op.name = "IntLoadLumpedMass_Md" =>
        /\ op.ret.Md[1] = Vadd(op.arg[1][1], Vmul(<<1, 1, 1>>, op.arg[3] * body.mass))
        /\ op.ret.Md[2] = Vadd(op.arg[1][2],
                               <<op.arg[3] * body.inertia[1][1],
                                 op.arg[3] * body.inertia[2][2],
                                 op.arg[3] * body.inertia[3][3]>>)
        /\ HasProducts(body) => op.ret.err # op.arg[2]


\* ---------------------------------------------------------------------------
\* ChBody: state increment and decrement
\* ---------------------------------------------------------------------------
\* A position state is <<pos, rot>>, an increment is <<translation, rotation
\* vector>>.  Angles are in units of pi, so a rotation vector of length 1 is
\* half a turn and one of length 2 a full turn.

MaxTurns == 2

\* ChQuaternion::SetFromRotVec: angle = |v|, axis = v/|v|,
\* q = (cos(angle/2), sin(angle/2) * axis).
SetFromRotVec(v) == Q_from_AngAxis(VLength(v), Vnormalize(v))

\* 2 * atan2(s, c) for (c, s) a quarter-turn point of the unit circle.
TwiceAtan2(s, c) ==
    CASE s = 0 /\ c > 0 -> 0
      [] s > 0 /\ c = 0 -> 1
      [] s = 0 /\ c < 0 -> 2
      [] OTHER          -> -1

\* ChQuaternion::GetRotVec: (e1, e2, e3) * 2*atan2(|e123|, e0) / |e123|, and
\* (e1, e2, e3) * 2 when the vector part vanishes.
GetRotVec(q) ==
    LET sin_squared == q[2] * q[2] + q[3] * q[3] + q[4] * q[4]
        sin_theta   == Isqrt(sin_squared)
    IN  IF sin_squared > 0
        THEN Vmul(Qvec(q), TwiceAtan2(sin_theta, q[1]) \div sin_theta)
        ELSE Vmul(Qvec(q), 2)

IntStateIncrement_AbsCompose(x, Dv) ==
    <<Vadd(x[1], Dv[1]), Qcross(SetFromRotVec(Dv[2]), x[2])>>

\* ChBody::IntStateIncrement: x_new = x + Dv, q_new = q_old * rel_q.
IntStateIncrement(x, Dv) ==
    <<Vadd(x[1], Dv[1]), Qcross(x[2], SetFromRotVec(Dv[2]))>>

\* ChBody::IntStateGetIncrement: Dv = x_new - x, rel_q = conj(q_old) * q_new.
IntStateGetIncrement(x_new, x) ==
    <<Vsub(x_new[1], x[1]), GetRotVec(Qcross(Qconjugate(x[2]), x_new[2]))>>

DoIntStateIncrement(x, Dv) ==
    /\ op' = CallArg("IntStateIncrement", FALSE, <<x, Dv>>, IntStateIncrement(x, Dv))
    /\ UNCHANGED <<body, descriptor, Rvec, last_force, dm, link, motor, matter>>

\* The integrator asks for the increment between the state it just advanced
\* and the state it advanced from; arg[3] remembers the increment applied.
DoIntStateGetIncrement ==
    /\ op.name = "IntStateIncrement"
    /\ op' = CallArg("IntStateGetIncrement", FALSE, <<op.ret, op.arg[1], op.arg[2]>>,
                     IntStateGetIncrement(op.ret, op.arg[1]))
    /\ UNCHANGED <<body, descriptor, Rvec, last_force, dm, link, motor, matter>>

UnitQuats ==
    {<<1, 0, 0, 0>>, <<-1, 0, 0, 0>>, <<0, 1, 0, 0>>, <<0, -1, 0, 0>>,
     <<0, 0, 1, 0>>, <<0, 0, -1, 0>>, <<0, 0, 0, 1>>, <<0, 0, 0, -1>>}

RotVecs ==
    UNION {{<<k, 0, 0>>, <<0, k, 0>>, <<0, 0, k>>} : k \in -MaxTurns..MaxTurns}

NextIncrement ==
    \/ \E p \in {VNULL, <<1, 0, 0>>}, q \in UnitQuats,
          d \in {VNULL, <<0, 2, -1>>}, r \in RotVecs :
          DoIntStateIncrement(<<p, q>>, <<d, r>>)
    \/ DoIntStateGetIncrement

SpecIncrement == Init /\ [][NextIncrement]_vars

\* C15 as stated: for every position state x and every increment Dv,
\* IntStateGetIncrement(IntStateIncrement(x, Dv), x) returns Dv.
C15_AsStated ==
    op.name = "IntStateGetIncrement" => op.ret = op.arg[3]

\* C15: for every position state x and every increment Dv whose rotation
\* vector is at most half a turn long, IntStateGetIncrement(
\* IntStateIncrement(x, Dv), x) returns Dv: the translation by subtraction,
\* the rotation from conjugate(q_old) * q_new with q_new = q_old * Dq.
C15_RoundTripWithinHalfTurn ==
    (op.name = "IntStateGetIncrement" /\ VLength(op.arg[3][2]) <= 1) =>
        op.ret = op.arg[3]

C15_Witness ==
    /\ op.name = "IntStateGetIncrement"
    /\ op.arg[3] = <<<<0, 2, -1>>, <<0, 1, 0>>>>
    /\ op.arg[2] = <<<<1, 0, 0>>, <<0, 1, 0, 0>>>>
    /\ op.ret = op.arg[3]


\* ---------------------------------------------------------------------------
\* ChMatterPeridynamics: filling a box
\* ---------------------------------------------------------------------------

Boxes == {<<2, 2, 2>>, <<4, 2, 2>>, <<4, 4, 4>>}

NextFill ==
    \/ DoAddNode(<<9, 0, 0>>, 4)
    \/ \E size \in Boxes, rho \in {1, 3}, do_centeredcube \in BOOLEAN :
          DoFillBox(size, 2, rho, do_centeredcube, 2)

SpecFill == Init /\ [][NextFill]_vars

RECURSIVE MassSum(_, _)
MassSum(nodes, n) ==
    IF n = 0 THEN <<0, 1>> ELSE FracAdd(MassSum(nodes, n - 1), nodes[n].mass)

\* C16: after FillBox with box volume V = size.x*size.y*size.z and density
\* rho, the masses of the container's nodes sum to V*rho, whatever the node
\* count, also when the container held nodes before the call or FillBox is
\* called again.
C16_FillBoxMassSum ==
    op.name = "FillBox" =>
        MassSum(matter.nodes, Len(matter.nodes)) =
            <<op.arg[1][1] * op.arg[1][2] * op.arg[1][3] * op.arg[3], 1>>


\* ---------------------------------------------------------------------------
\* ChMatterPeriBulkElastic: bond forces
\* ---------------------------------------------------------------------------

\* Three nodes on a line, four apart, horizon 8, with the three bonds between
\* them, each broken or not.
ThreeNodes ==
    AddNode(AddNode(AddNode(NewMatter, <<0, 0, 0>>, 8), <<4, 0, 0>>, 8), <<8, 0, 0>>, 8)

Bound(a, b, broken) == [nodeA |-> a, nodeB |-> b, broken |-> broken, F_per_bond |-> 0]

InitBonds ==
    /\ body = NewBody
    /\ descriptor = {}
    /\ Rvec = <<VNULL, VNULL>>
    /\ op = Call("new", FALSE, FALSE)
    /\ last_force = NoForceYet
    /\ dm = NewDM
    /\ link = NewLink
    /\ motor = NewMotor
    /\ \E b12, b23, b13 \in BOOLEAN :
          matter = [ThreeNodes EXCEPT !.bounds =
                       (<<1, 2>> :> Bound(1, 2, b12)) @@ (<<2, 3>> :> Bound(2, 3, b23))
                       @@ (<<1, 3>> :> Bound(1, 3, b13))]

Shifts == {VNULL, <<2, 0, 0>>}

NextBonds ==
    \/ \E d1, d3, v3 \in Shifts :
          DoMatterIntStateScatter(<<d1, <<4, 0, 0>>, Vadd(<<8, 0, 0>>, d3)>>,
                                  <<VNULL, VNULL, v3>>, 1)
    \/ \E order \in Orders(matter), resume \in BOOLEAN : DoComputeForces(order, resume)

SpecBonds == InitBonds /\ [][NextBonds]_vars

Forces(m) == [j \in 1..Len(m.nodes) |-> m.nodes[j].F_peridyn]

\* C17: whichever order ComputeForces visits the bonds in, every node ends
\* with the same accumulated F_peridyn: the forces a call left equal those of
\* the same call made with any other order of the same bonds.
C17_OrderIndependent ==
    op.name = "ComputeForces" =>
        \A order \in Orders(op.arg[1]), resume \in BOOLEAN :
            Forces(ComputeForces(op.arg[1], order, resume)) = Forces(matter)


\* ---------------------------------------------------------------------------
\* ChLcpSolverParallelDVI: assembly timers
\* ---------------------------------------------------------------------------

AssemblyTimers ==
    {"ChLcpSolverParallel_D", "ChLcpSolverParallel_E", "ChLcpSolverParallel_R",
     "ChLcpSolverParallel_N"}

\* C30: every timer ComputeD, ComputeE, ComputeR and ComputeN start is stopped
\* before they return, also on the early return of a step without
\* constraints: no assembly timer is running when RunTimeStep is over.
C30_AssemblyTimersStopped ==
    op.name = "RunTimeStep" => dm.timers \cap AssemblyTimers = {}


\* ---------------------------------------------------------------------------
\* ChLcpSolverParallelDVI: the solve stages
\* ---------------------------------------------------------------------------

\* the iteration limits of the three stages are set independently
InitStages ==
    /\ body = NewBody
    /\ descriptor = {}
    /\ Rvec = <<VNULL, VNULL>>
    /\ op = Call("new", FALSE, FALSE)
    /\ last_force = NoForceYet
    /\ link = NewLink
    /\ motor = NewMotor
    /\ matter = NewMatter
    /\ \E itn, its, itp \in {0, MaxIter} :
           dm = [NewDM EXCEPT !.max_iteration_normal = itn, !.max_iteration_sliding = its,
                              !.max_iteration_spinning = itp]

NextStages ==
    \E mode \in SolverModes, contacts \in 0..MaxContacts, bilaterals \in {0, 1} :
        DoRunTimeStep(mode, contacts, bilaterals, 0, 0)

SpecStages == InitStages /\ [][NextStages]_vars

Stages == <<"NORMAL", "SLIDING", "SPINNING">>

ModeRank(mode) ==
    CASE mode = "BILATERAL" -> 0 [] mode = "NORMAL" -> 1 [] mode = "SLIDING" -> 2
      [] OTHER -> 3

StageIterations(d, stage) ==
    CASE stage = "NORMAL" -> d.max_iteration_normal
      [] stage = "SLIDING" -> d.max_iteration_sliding
      [] OTHER -> d.max_iteration_spinning

\* C22: the Solve calls of a step are those of the stages Normal, Sliding,
\* Spinning, in that order, that the configured solver_mode reaches and whose
\* max_iteration is positive; every stage after the first is handed the
\* multipliers the stage before it left; and solver_mode is after the step
\* what it was configured to when the step began.
C22_StagesInOrder ==
    op.name = "RunTimeStep" =>
        LET sc == SolveCalls(dm)
            due == SelectSeq(Stages, LAMBDA st :
                       ModeRank(op.arg[1]) >= ModeRank(st) /\ StageIterations(dm, st) > 0)
        IN  /\ [k \in 1..Len(sc) |-> sc[k].who] = due
            /\ \A k \in 2..Len(sc) :
                   sc[k].gamma_in = [i \in 1..Len(sc[k - 1].gamma_in) |-> 1]
            /\ dm.solver_mode = op.arg[1]

C22_Witness ==
    /\ op.name = "RunTimeStep"
    /\ op.arg[1] = "SPINNING"
    /\ dm.num_constraints > 0
    /\ Len(SolveCalls(dm)) = 3


\* ---------------------------------------------------------------------------
\* ChShaftsMotorAngle: the two ways of loading the bias and of receiving the
\* reaction
\* ---------------------------------------------------------------------------

NextMotorLoad ==
    \/ \E mp \in -MaxAngle..MaxAngle : DoSetPos(mp)
    \/ \E mo \in {0, 1} : DoSetAngleOffset(mo)
    \/ DoConstraintsBiReset
    \/ \E factor \in {1, 2}, recovery_clamp \in {0, 1}, do_clamp \in BOOLEAN :
           DoConstraintsBiLoad_C(factor, recovery_clamp, do_clamp)

SpecMotorLoad == Init /\ [][NextMotorLoad]_vars

\* C21: from b_i = 0, ConstraintsBiLoad_C(factor, recovery_clamp, do_clamp)
\* leaves in b_i what IntLoadConstraint_C with the same factor, flag and clamp
\* leaves in a Qc that was 0: the violation scaled once by factor when
\* do_clamp is false, and a value within recovery_clamp when it is true.
C21_BiasPathsAgree ==
    [][(op'.name = "ConstraintsBiLoad_C" /\ motor.constraint.b_i = 0) =>
           /\ motor'.constraint.b_i =
                  IntLoadConstraint_C([motor EXCEPT !.Qc = 0], op'.arg[1], op'.flag,
                                      op'.arg[2]).Qc
           /\ ~op'.flag => motor'.constraint.b_i = op'.arg[1] * MotorC(motor)
           /\ op'.flag => Abs(motor'.constraint.b_i) <= op'.arg[2]]_vars

\* C27: the multiplier lambda the solver stored in l_i, read by
\* ConstraintsFetch_react(1), leaves the motor torque that
\* IntStateScatterReactions leaves when handed L = lambda; and the reaction
\* gathered by IntStateGatherReactions comes back unchanged through
\* IntToDescriptor and IntFromDescriptor.
C27_ReactionPathsAgree ==
    /\ (op.name = "ConstraintsFetch_react" /\ op.arg[1] = 1) =>
           motor.motor_torque =
               IntStateScatterReactions(motor, motor.constraint.l_i).motor_torque
    /\ LET g == IntStateGatherReactions(motor)
       IN  MotorIntFromDescriptor(MotorIntToDescriptor(g, g.L, g.Qc)).L = g.L


\* ---------------------------------------------------------------------------
\* ChMatterPeriBulkElastic: one bond
\* ---------------------------------------------------------------------------

\* as InitBonds, with the third node's volume 0.01 or 0.02
InitVolumes ==
    /\ body = NewBody
    /\ descriptor = {}
    /\ Rvec = <<VNULL, VNULL>>
    /\ op = Call("new", FALSE, FALSE)
    /\ last_force = NoForceYet
    /\ dm = NewDM
    /\ link = NewLink
    /\ motor = NewMotor
    /\ \E b23 \in BOOLEAN, vol \in {1, 2} :
          matter = [ThreeNodes EXCEPT
                       !.nodes[3].volume = vol,
                       !.bounds = (<<1, 2>> :> Bound(1, 2, FALSE)) @@ (<<2, 3>> :> Bound(2, 3, b23))
                                  @@ (<<1, 3>> :> Bound(1, 3, FALSE))]

SpecVolumes == InitVolumes /\ [][NextBonds]_vars

\* what visiting a bond adds to the force of node j
Added(m, key, j) == Vsub(VisitBond(m, key).nodes[j].F_peridyn, m.nodes[j].F_peridyn)

\* C25: what a bond that is not broken adds to nodeA's F_peridyn is the
\* negation of what it adds to nodeB's, whatever the volumes of the two nodes.
C25_EqualAndOpposite ==
    \A key \in DOMAIN matter.bounds :
        ~matter.bounds[key].broken =>
            Added(matter, key, matter.bounds[key].nodeA) =
                Vmul(Added(matter, key, matter.bounds[key].nodeB), -1)

Stretched(m, key) ==
    LET nodeA == m.nodes[m.bounds[key].nodeA]
        nodeB == m.nodes[m.bounds[key].nodeB]
        old_sdist == VLength(Vsub(nodeB.pos_ref, nodeA.pos_ref))
        sdist == VLength(Vsub(nodeB.pos, nodeA.pos))
    IN  100 * (sdist - old_sdist) > 8 * old_sdist

Far(m, key) ==
    VLength(Vsub(m.nodes[m.bounds[key].nodeB].pos, m.nodes[m.bounds[key].nodeA].pos))
        > m.nodes[m.bounds[key].nodeA].h_rad

NextFixed ==
    \/ \E state \in BOOLEAN : DoSetBodyFixed(state)
    \/ \E state \in BOOLEAN : DoSetSleeping(state)
    \/ \E state \in BOOLEAN : DoSetUseSleeping(state)
    \/ \E state \in BOOLEAN : DoSetLimitSpeed(state)
    \/ DoInjectVariables
    \/ DoCopyBody

SpecFixed == Init /\ [][NextFixed]_vars

\* C26: in every state reached by SetBodyFixed, SetSleeping, InjectVariables
\* and copy construction, a body whose fixed flag is true has its solver
\* variables disabled.
C26_FixedImpliesDisabled == body.fixed => body.var_disabled

\* a copy of a fixed body that was asleep and injected, then woken
C26_Witness ==
    /\ op.name = "SetSleeping" /\ ~op.flag
    /\ body.fixed /\ body.var_disabled
    /\ ~body.system
    /\ "body" \in descriptor


\* ---------------------------------------------------------------------------
\* ChBody: collision on and off
\* ---------------------------------------------------------------------------

\* a body in a system, with a collision model
InitCollide ==
    /\ body = [NewBody EXCEPT !.collision_model = TRUE]
    /\ descriptor = {}
    /\ Rvec = <<VNULL, VNULL>>
    /\ op = Call("new", FALSE, FALSE)
    /\ last_force = NoForceYet
    /\ dm = NewDM
    /\ link = NewLink
    /\ motor = NewMotor
    /\ matter = NewMatter

NextCollide ==
    \/ \E state \in BOOLEAN : DoSetCollide(state)
    \/ DoAddCollisionModelsToSystem
    \/ \E state \in BOOLEAN : DoSetBodyFixed(state)
    \/ \E state \in BOOLEAN : DoSetSleeping(state)
    \/ \E state \in BOOLEAN : DoSetLimitSpeed(state)

SpecCollide == InitCollide /\ [][NextCollide]_vars

\* C28: once the collision system is initialized, after every SetCollide the
\* body's model is registered in it iff collide is true, and no Add was made
\* of a registered model and no Remove of one that is not registered.
C28_RegisteredIffCollide ==
    body.coll_sys_initialized =>
        /\ body.has_implementation <=> body.collide
        /\ ~body.double_add
        /\ ~body.stray_remove

\* collision was turned on, off and on again after the initialization
C28_Witness ==
    /\ body.coll_sys_initialized
    /\ op.name = "SetCollide" /\ ~op.flag
    /\ ~body.collide /\ ~body.has_implementation
    /\ body.fixed


\* ---------------------------------------------------------------------------
\* ChMatterPeridynamics: the force evaluation
\* ---------------------------------------------------------------------------

\* two nodes; the second has no bonds
InitEval ==
    /\ body = NewBody
    /\ descriptor = {}
    /\ Rvec = <<VNULL, VNULL>>
    /\ op = Call("new", FALSE, FALSE)
    /\ last_force = NoForceYet
    /\ dm = NewDM
    /\ link = NewLink
    /\ motor = NewMotor
    /\ matter = AddNode(AddNode(NewMatter, <<0, 0, 0>>, 8), <<4, 0, 0>>, 8)

\* what the bonds of a node accumulate: nothing, or a shape tensor that can be
\* inverted
NoBonds == [J |-> 0, Amoment |-> 0, density |-> 0]
Accumulated == {NoBonds, [J |-> 1, Amoment |-> 1, density |-> 1],
                [J |-> 2, Amoment |-> -1, density |-> 1]}

NextEval ==
    \/ \E j \in {1, 2}, F \in {VNULL, <<2, 0, 0>>} : DoSetUserForce(j, F)
    \/ \E c \in {1, 2}, acc \in Accumulated, transfer \in {VNULL, <<1, 0, 0>>} :
           DoMatterIntLoadResidual_F(<<VNULL, VNULL>>, c, <<acc, NoBonds>>, <<transfer, VNULL>>)
    \/ \E acc \in Accumulated :
           DoMatterVariablesFbLoadForces(1, <<acc, NoBonds>>, <<VNULL, VNULL>>)
    \/ DoMatterVariablesFbReset

SpecEval == InitEval /\ [][NextEval]_vars

\* C23: a force the user set on a node before the evaluation is part of what
\* the node loads: IntLoadResidual_F adds c * (gravity * mass + that force) to
\* the residual of a node its bonds hand nothing to, and
\* VariablesFbLoadForces adds the same to the node's fb.
C23_UserForceLoaded ==
    [][/\ op'.name = "MatterIntLoadResidual_F" =>
              \A j \in 1..Len(matter.nodes) :
                  op'.arg[4][j] = VNULL =>
                      op'.ret[j] = Vadd(op'.arg[1][j],
                                        Vmul(Vadd(Vmul(G_acc, NodeMass(matter.nodes[j])),
                                                  matter.nodes[j].UserForce), op'.arg[2]))
       /\ op'.name = "MatterVariablesFbLoadForces" =>
              \A j \in 1..Len(matter.nodes) :
                  op'.arg[3][j] = VNULL =>
                      matter'.nodes[j].fb =
                          Vadd(matter.nodes[j].fb,
                               Vmul(Vadd(Vmul(G_acc, NodeMass(matter.nodes[j])),
                                         matter.nodes[j].UserForce), op'.arg[1]))]_vars

\* C24: a node whose accumulated shape tensor cannot be inverted comes out of
\* the evaluation with Amoment, elastic strain and stress zero, and with a
\* force tensor FA that is not the one an earlier evaluation left.
C24_SingularNodeDeactivated ==
    [][op'.name \in {"MatterIntLoadResidual_F", "MatterVariablesFbLoadForces"} =>
           \A j \in 1..Len(matter.nodes) :
               LET acc == IF op'.name = "MatterIntLoadResidual_F"
                          THEN op'.arg[3][j] ELSE op'.arg[2][j]
               IN  acc.Amoment = 0 =>
                       /\ matter'.nodes[j].Amoment = 0
                       /\ matter'.nodes[j].e_strain = 0
                       /\ matter'.nodes[j].e_stress = 0
                       /\ matter.nodes[j].FA # 0 =>
                              matter'.nodes[j].FA # matter.nodes[j].FA]_vars

====
